---- MODULE Spec2Model ----
(***************************************************************************)
(* guillotine-rs: the adapter between a REVM ledger (Database) and the     *)
(* guillotine-mini engine reached through its C ABI.                       *)
(*                                                                         *)
(* The engine is a black box: every value it returns (a setter's bool, the *)
(* handle of evm_create, the execution report) is chosen by an oracle.     *)
(* The adapter's functions are translated from src/src/guillotine_mini.    *)
(* Every ledger lookup and every engine call of an operation is appended   *)
(* to the operation's trace, so order and early returns can be checked.    *)
(***************************************************************************)
EXTENDS Integers, Sequences, FiniteSets, TLC

\* ---------------------------------------------------------------- bounds
MaxAddr == 1
MaxSlot == 10
MaxInst == 1
MaxRuns == 2
MaxLogs == 2
MaxChanges == 2
MaxOverrides == 2

\* ------------------------------------------------------- program constants
\* evm.rs:262 `let common_slots: [U256; 10]`
NumCommonSlots == 10

\* types.rs:11 `[u8; 20]`, types.rs:23 `[u8; 32]`
AddrLen == 20
WordLen == 32

NULL == 0
ZERO == 0
Addr == 0..MaxAddr
Slot == 0..MaxSlot
Handle == 1..MaxInst
DbErrors == {"DbErrA", "DbErrB"}

VARIABLES
    db,        \* the ledger: accounts and storage (ctx.journaled_state.db_mut())
    inst,      \* the GuillotineMiniEvm values: state and owned engine handle
    engH,      \* engine side: "unborn" | "live" | "destroyed" per handle
    destroys,  \* engine side: number of evm_destroy calls per handle
    misuse,    \* engine side: an engine call was made on a handle that is not live
    eng,       \* engine side: the pre-state pushed into each handle
    req,       \* per handle, the (address, slot) pairs an operation was asked to pre-sync
    last,      \* the last adapter operation: its trace and what it returned
    runs,      \* number of sync / transact operations so far
    cfg        \* the configuration API: builder, built config, handle and handler boxes

vars == <<db, inst, engH, destroys, misuse, eng, req, last, runs, cfg>>

\* ------------------------------------------------------------ conversions
\* An Address and a U256 are numbers; across the C ABI they travel as
\* big-endian byte arrays of 20 and 32 bytes.
\* The value of a big-endian byte array: the digits of its low four bytes.
\* An array with a non-zero byte above them holds a number outside the
\* model's range, shown as -1.
BeValue(bytes) ==
    LET n == Len(bytes)
    IN  IF \E j \in 1..(n - 4) : bytes[j] # 0 THEN -1
        ELSE ((bytes[n - 3] * 256 + bytes[n - 2]) * 256 + bytes[n - 1]) * 256 + bytes[n]

\* The low four bytes carry the digits of the value; the model's numbers are
\* below 2^31, so the bytes above them (the pad) are zero.
AddrPad == [j \in 1..(AddrLen - 4) |-> 0]
WordPad == [j \in 1..(WordLen - 4) |-> 0]
BeBytes(value, pad) ==
    pad \o << (value \div 16777216) % 256, (value \div 65536) % 256,
              (value \div 256) % 256, value % 256 >>

address_to_bytes(addr) == BeBytes(addr, AddrPad)
address_from_bytes(bytes) == BeValue(bytes)
u256_to_be_bytes(value) == BeBytes(value, WordPad)
u256_from_be_bytes(bytes) == BeValue(bytes)
\* Faulty variant: the cast to unsigned without the clamp; a negative number
\* wraps around (here within 31 bits).
i64_as_u64(gas) == IF gas < 0 THEN (2147483647 + gas) + 1 ELSE gas

\* i64_to_u64_gas (types.rs:45-50): gas.max(0) as u64
i64_to_u64_gas(gas) == IF gas > 0 THEN gas ELSE 0

\* A u64 is kept as four digits of base 65536, most significant first; an i64
\* as its sign and the digits of its magnitude.
\* 2^64 - value, digit by digit: the complement of each digit, plus one.
TwosComplement(value) ==
    LET c == [j \in 1..4 |-> 65535 - value[j]]
        s4 == c[4] + 1
        s3 == c[3] + (s4 \div 65536)
        s2 == c[2] + (s3 \div 65536)
        s1 == c[1] + (s2 \div 65536)
    IN  << s1 % 65536, s2 % 65536, s3 % 65536, s4 % 65536 >>

\* `tx.gas_limit as i64` (evm.rs:297): the same 64 bits read as a signed
\* number; with the top bit set the number is negative, value - 2^64.
u64_as_i64(value) ==
    IF value[1] >= 32768 THEN [negative |-> TRUE, magnitude |-> TwosComplement(value)]
    ELSE [negative |-> FALSE, magnitude |-> value]

\* The whole range. A U256 is kept least significant digit first (base 256,
\* WordLen digits), an Address is the newtype Address(FixedBytes([u8; 20])),
\* here a 1-tuple holding a 1-tuple holding the bytes.
\* Faulty variant: the digits are written least significant first.
U256_to_le_bytes(value) == value

\* U256::to_be_bytes (types.rs:24): most significant digit first.
U256_to_be_bytes(value) == [j \in 1..WordLen |-> value[WordLen + 1 - j]]

\* U256::from_be_bytes (types.rs:30)
U256_from_be_bytes(bytes) == [j \in 1..WordLen |-> bytes[WordLen + 1 - j]]

\* addr.0 .0 (types.rs:12) and Address::from (types.rs:18)
Address_to_bytes(addr) == addr[1][1]
Address_from(bytes) == << << bytes >> >>

\* ------------------------------------------------------------ the ledger
NoCode == [some |-> FALSE, bytes |-> <<>>]
SomeCode(b) == [some |-> TRUE, bytes |-> b]
NoAccount == [some |-> FALSE, balance |-> 0, nonce |-> 0, code |-> NoCode]
\* The three kinds of ledger entry: absent, an account without code, a contract.
AccountOfKind(k) ==
    IF k = 0 THEN NoAccount
    ELSE IF k = 1 THEN [some |-> TRUE, balance |-> 5, nonce |-> 1, code |-> NoCode]
    ELSE [some |-> TRUE, balance |-> 0, nonce |-> 2, code |-> SomeCode(<<70, 0>>)]

\* Ledgers of Init: address a holds the account of kind (a + shift) mod 3, and
\* the slots of `hot` hold a non-zero value.
LedgerAccounts == { [a \in Addr |-> AccountOfKind((a + sh) % 3)] : sh \in 0..2 }
\* Slot 0 and the last slot of the pre-sync window hold a value, and so does
\* the first slot past the window; the slots between hold zero.
HotSlots == { 0, NumCommonSlots - 1, NumCommonSlots }
LedgerStorage == [p \in Addr \X Slot |-> IF p[2] \in HotSlots THEN 1 + ((p[1] + p[2]) % 2) ELSE 0]
Ledgers == { [acc |-> la, sto |-> LedgerStorage] : la \in LedgerAccounts }

\* ---------------------------------------------------------- trace events
\* One entry per ledger lookup and per engine call: the function, the handle,
\* the address / slot / word / bytes arguments as the callee decodes them,
\* and what the callee answered (TRUE for a call that returns nothing).
Ev(fn, h, a, s, v, b, ok) ==
    [fn |-> fn, h |-> h, a |-> a, s |-> s, v |-> v, b |-> b, ok |-> ok]

\* What the oracle decides for one operation: the ledger lookup or the
\* fallible engine call (counted from 1 within the operation) that fails, and
\* the engine's report once evm_execute is reached.
NoReport ==
    [ok |-> FALSE, success |-> FALSE, gas |-> 0, refund |-> 0, output |-> <<>>,
     logs |-> <<>>, changes |-> <<>>]
Oracle(kind, at, err, rep) == [kind |-> kind, at |-> at, err |-> err, rep |-> rep]

\* The run of one operation: engine state of the handle, the ledger the
\* operation borrows, trace, counters of
\* ledger lookups (q) and fallible engine calls (k), and the pending return.
EmptyMap == [x \in {} |-> 0]
NoOut == [result |-> [tag |-> "none"], state |-> EmptyMap]
StartRun(e) ==
    [eng |-> e, db |-> db, calls |-> <<>>, q |-> 0, k |-> 0, ret |-> "run", err |-> "",
     out |-> NoOut]
Fail(r, ret, err) == [r EXCEPT !.ret = ret, !.err = err]
LastOk(r) == r.calls[Len(r.calls)].ok

\* ------------------------------------------------------ the engine (C ABI)
FreshEngine ==
    [bal |-> [a \in Addr |-> 0], nonce |-> [a \in Addr |-> 0],
     code |-> [a \in Addr |-> <<>>], sto |-> [p \in Addr \X Slot |-> 0],
     bytecode |-> NoCode, ectx |-> [some |-> FALSE, caller |-> 0, address |-> 0, data |-> <<>>],
     bctx |-> FALSE]

\* A fallible engine call: the oracle answers; `e2` is the engine state when
\* the call succeeds.
FfiCall(r, o, ev, e2) ==
    LET ok == ~(o.kind = "ffi" /\ o.at = r.k + 1)
    IN [r EXCEPT !.k = @ + 1,
                 !.calls = Append(@, [ev EXCEPT !.ok = ok]),
                 !.eng = IF ok THEN e2 ELSE @]

\* An engine call that returns nothing or a plain value.
FfiGet(r, ev) == [r EXCEPT !.calls = Append(@, ev)]

evm_set_balance(r, o, h, addr_bytes, balance_bytes) ==
    LET a == BeValue(addr_bytes)
        v == BeValue(balance_bytes)
    IN FfiCall(r, o, Ev("evm_set_balance", h, a, 0, v, <<>>, TRUE),
               [r.eng EXCEPT !.bal[a] = v])

evm_set_nonce(r, o, h, addr_bytes, nonce) ==
    LET a == BeValue(addr_bytes)
    IN FfiCall(r, o, Ev("evm_set_nonce", h, a, 0, nonce, <<>>, TRUE),
               [r.eng EXCEPT !.nonce[a] = nonce])

evm_set_code(r, o, h, addr_bytes, code) ==
    LET a == BeValue(addr_bytes)
    IN FfiCall(r, o, Ev("evm_set_code", h, a, 0, 0, code, TRUE),
               [r.eng EXCEPT !.code[a] = code])

evm_set_storage(r, o, h, addr_bytes, key_bytes, value_bytes) ==
    LET a == BeValue(addr_bytes)
        s == BeValue(key_bytes)
        v == BeValue(value_bytes)
    IN FfiCall(r, o, Ev("evm_set_storage", h, a, s, v, <<>>, TRUE),
               IF <<a, s>> \in DOMAIN r.eng.sto THEN [r.eng EXCEPT !.sto[<<a, s>>] = v]
               ELSE r.eng)

evm_set_bytecode(r, o, h, bytecode) ==
    FfiCall(r, o, Ev("evm_set_bytecode", h, 0, 0, 0, bytecode, TRUE),
            [r.eng EXCEPT !.bytecode = SomeCode(bytecode)])

evm_set_execution_context(r, o, h, gas, caller_bytes, address_bytes, value_bytes, calldata) ==
    LET c == BeValue(caller_bytes)
        a == BeValue(address_bytes)
    IN FfiCall(r, o, [fn |-> "evm_set_execution_context", h |-> h, a |-> a, s |-> c,
                      v |-> BeValue(value_bytes), b |-> calldata, ok |-> TRUE, gas |-> gas],
               [r.eng EXCEPT !.ectx = [some |-> TRUE, caller |-> c, address |-> a,
                                       data |-> calldata]])

evm_set_blockchain_context(r, h) ==
    [FfiGet(r, Ev("evm_set_blockchain_context", h, 0, 0, 0, <<>>, TRUE))
        EXCEPT !.eng.bctx = TRUE]

\* evm_get_storage (ffi.rs:240-251): the value the engine holds for the slot
\* is written to value_bytes.
evm_get_storage(r, o, h, addr_bytes, key_bytes) ==
    LET a == BeValue(addr_bytes)
        s == BeValue(key_bytes)
        v == IF <<a, s>> \in DOMAIN r.eng.sto THEN r.eng.sto[<<a, s>>] ELSE 0
    IN FfiCall(r, o, Ev("evm_get_storage", h, a, s, v, BeBytes(v, WordPad), TRUE), r.eng)

\* The storage map of the engine after the writes of an execution.
RECURSIVE EngWrite(_, _, _)
EngWrite(sto, changes, i) ==
    IF i > Len(changes) THEN sto
    ELSE EngWrite([sto EXCEPT ![<<changes[i].address, changes[i].slot>>] = changes[i].value],
                  changes, i + 1)

\* evm_execute: the engine runs on the state pushed into it and on nothing
\* else (its C ABI takes the handle only); whether it completes, what it
\* reports and what it writes to its own storage come from the oracle.
evm_execute(r, o, h) ==
    [FfiGet(r, Ev("evm_execute", h, 0, 0, 0, <<>>, o.rep.ok))
        EXCEPT !.eng.sto = IF o.rep.ok THEN EngWrite(@, o.rep.changes, 1) ELSE @]

\* The result getters read the report of the last execution.
evm_get_gas_used(r, rep, h) == FfiGet(r, Ev("evm_get_gas_used", h, 0, 0, rep.gas, <<>>, TRUE))
evm_is_success(r, rep, h) == FfiGet(r, Ev("evm_is_success", h, 0, 0, 0, <<>>, rep.success))
evm_get_output_len(r, rep, h) ==
    FfiGet(r, Ev("evm_get_output_len", h, 0, 0, Len(rep.output), <<>>, TRUE))
evm_get_output(r, rep, h, buf_len) ==
    FfiGet(r, Ev("evm_get_output", h, 0, 0, buf_len, rep.output, TRUE))
evm_get_gas_refund(r, rep, h) ==
    FfiGet(r, Ev("evm_get_gas_refund", h, 0, 0, rep.refund, <<>>, TRUE))
evm_get_log_count(r, rep, h) ==
    FfiGet(r, Ev("evm_get_log_count", h, 0, 0, Len(rep.logs), <<>>, TRUE))
evm_get_log(r, rep, h, i) ==
    FfiGet(r, Ev("evm_get_log", h, 0, i, 0, <<>>, rep.logs[i + 1].ok))
evm_get_storage_change_count(r, rep, h) ==
    FfiGet(r, Ev("evm_get_storage_change_count", h, 0, 0, Len(rep.changes), <<>>, TRUE))
evm_get_storage_change(r, rep, h, i) ==
    FfiGet(r, Ev("evm_get_storage_change", h, 0, i, 0, <<>>, rep.changes[i + 1].ok))

\* let mut topics_buf = [0u8; 128] and let mut data_buf = vec![0u8; 4096]
\* (evm.rs:366-368)
TopicsBufLen == 128
DataBufLen == 4096

\* What the engine copies into the caller's buffers.
OutputBuf(rep, buf_len) ==
    [j \in 1..buf_len |-> IF j <= Len(rep.output) THEN rep.output[j] ELSE 0]
\* evm_get_log (ffi.rs:296-312): the topics are written as consecutive 32-byte
\* words into topics_out, data_len_out receives the actual data length and at
\* most data_max_len bytes of the data are copied to the start of data_out.
LogOut(e, data_max_len) ==
    LET words == [t \in 1..Len(e.topics) |-> BeBytes(e.topics[t], WordPad)]
        copy_len == IF Len(e.data) < data_max_len THEN Len(e.data) ELSE data_max_len
    IN  [log_address |-> BeBytes(e.address, AddrPad),
         topics_count |-> Len(e.topics),
         topics_buf |-> [j \in 1..TopicsBufLen |->
                            IF (j - 1) \div WordLen < Len(e.topics)
                            THEN words[((j - 1) \div WordLen) + 1][((j - 1) % WordLen) + 1]
                            ELSE 0],
         data_len |-> Len(e.data),
         data_written |-> SubSeq(e.data, 1, copy_len)]
ChangeOut(c) ==
    [addr_bytes |-> BeBytes(c.address, AddrPad),
     slot_bytes |-> BeBytes(c.slot, WordPad),
     value_bytes |-> BeBytes(c.value, WordPad)]

\* ------------------------------------------------------------ ledger reads
DbFails(r, o) == o.kind = "db" /\ o.at = r.q + 1

\* db.basic(address).map_err(EvmAdapterError::Db)?
DbBasic(r, o, address) ==
    LET bad == DbFails(r, o)
        r1 == [r EXCEPT !.q = @ + 1,
                        !.calls = Append(@, Ev("db.basic", NULL, address, 0, 0, <<>>, ~bad))]
    IN IF bad THEN Fail(r1, "Db", o.err) ELSE r1

\* Faulty variant: a failed storage lookup is swallowed and the run goes on.
DbStorage_swallowed(r, o, address, slot) ==
    [r EXCEPT !.q = @ + 1,
              !.calls = Append(@, Ev("db.storage", NULL, address, slot, 0, <<>>, ~DbFails(r, o)))]

\* db.storage(address, slot).map_err(EvmAdapterError::Db)?
DbStorage(r, o, address, slot) ==
    LET bad == DbFails(r, o)
        r1 == [r EXCEPT !.q = @ + 1,
                        !.calls = Append(@, Ev("db.storage", NULL, address, slot, 0, <<>>, ~bad))]
    IN IF bad THEN Fail(r1, "Db", o.err) ELSE r1

\* ------------------------------------------------- database_bridge.rs
\* Faulty variant: an absent account is pushed as an empty one.
sync_account_absent_pushed(r, o, handle, address) ==
    IF handle = NULL THEN Fail(r, "Ffi", "null handle")
    ELSE
    LET addr_bytes == address_to_bytes(address)
        r1 == DbBasic(r, o, address)
        acc == IF r.db.acc[address].some THEN r.db.acc[address]
               ELSE [NoAccount EXCEPT !.some = TRUE]
    IN  IF r1.ret # "run" THEN r1
        ELSE
        LET r2 == evm_set_balance(r1, o, handle, addr_bytes, u256_to_be_bytes(acc.balance))
        IN  IF ~LastOk(r2) THEN Fail(r2, "Ffi", "evm_set_balance")
            ELSE
            LET r3 == evm_set_nonce(r2, o, handle, addr_bytes, acc.nonce)
            IN  IF ~LastOk(r3) THEN Fail(r3, "Ffi", "evm_set_nonce")
                ELSE IF ~acc.code.some THEN r3
                ELSE
                LET r4 == evm_set_code(r3, o, handle, addr_bytes, acc.code.bytes)
                IN  IF ~LastOk(r4) THEN Fail(r4, "Ffi", "evm_set_code") ELSE r4

\* Faulty variant: the result of evm_set_nonce is not checked.
sync_account_nonce_unchecked(r, o, handle, address) ==
    IF handle = NULL THEN Fail(r, "Ffi", "null handle")
    ELSE
    LET addr_bytes == address_to_bytes(address)
        r1 == DbBasic(r, o, address)
        acc == r.db.acc[address]
    IN  IF r1.ret # "run" THEN r1
        ELSE IF ~acc.some THEN r1
        ELSE
        LET r2 == evm_set_balance(r1, o, handle, addr_bytes, u256_to_be_bytes(acc.balance))
        IN  IF ~LastOk(r2) THEN Fail(r2, "Ffi", "evm_set_balance")
            ELSE
            LET r3 == evm_set_nonce(r2, o, handle, addr_bytes, acc.nonce)
            IN  IF ~acc.code.some THEN r3
                ELSE
                LET r4 == evm_set_code(r3, o, handle, addr_bytes, acc.code.bytes)
                IN  IF ~LastOk(r4) THEN Fail(r4, "Ffi", "evm_set_code") ELSE r4

sync_account_to_ffi(r, o, handle, address) ==
    IF handle = NULL THEN Fail(r, "Ffi", "null handle")
    ELSE
    LET addr_bytes == address_to_bytes(address)
        r1 == DbBasic(r, o, address)
        acc == r.db.acc[address]
    IN  IF r1.ret # "run" THEN r1
        ELSE IF ~acc.some THEN r1
        ELSE
        LET r2 == evm_set_balance(r1, o, handle, addr_bytes, u256_to_be_bytes(acc.balance))
        IN  IF ~LastOk(r2) THEN Fail(r2, "Ffi", "evm_set_balance")
            ELSE
            LET r3 == evm_set_nonce(r2, o, handle, addr_bytes, acc.nonce)
            IN  IF ~LastOk(r3) THEN Fail(r3, "Ffi", "evm_set_nonce")
                ELSE IF ~acc.code.some THEN r3
                ELSE
                LET r4 == evm_set_code(r3, o, handle, addr_bytes, acc.code.bytes)
                IN  IF ~LastOk(r4) THEN Fail(r4, "Ffi", "evm_set_code") ELSE r4

sync_storage_to_ffi(r, o, handle, address, slot) ==
    IF handle = NULL THEN Fail(r, "Ffi", "null handle")
    ELSE
    LET addr_bytes == address_to_bytes(address)
        key_bytes == u256_to_be_bytes(slot)
        r1 == DbStorage(r, o, address, slot)
    IN  IF r1.ret # "run" THEN r1
        ELSE
        LET value_bytes == u256_to_be_bytes(r.db.sto[<<address, slot>>])
            r2 == evm_set_storage(r1, o, handle, addr_bytes, key_bytes, value_bytes)
        IN  IF ~LastOk(r2) THEN Fail(r2, "Ffi", "evm_set_storage") ELSE r2

\* Faulty variant: the result of evm_set_storage is ignored and the loop goes on.
RECURSIVE SyncSlotsFrom_unchecked(_, _, _, _, _, _)
SyncSlotsFrom_unchecked(r, o, handle, address, slots, i) ==
    IF i > Len(slots) THEN r
    ELSE
    LET r1 == DbStorage(r, o, address, slots[i])
    IN  IF r1.ret # "run" THEN r1
        ELSE SyncSlotsFrom_unchecked(
                 evm_set_storage(r1, o, handle, address_to_bytes(address),
                                 u256_to_be_bytes(slots[i]),
                                 u256_to_be_bytes(r.db.sto[<<address, slots[i]>>])),
                 o, handle, address, slots, i + 1)

\* The body of `for slot in slots`, from position i on.
RECURSIVE SyncSlotsFrom(_, _, _, _, _, _)
SyncSlotsFrom(r, o, handle, address, slots, i) ==
    IF i > Len(slots) THEN r
    ELSE
    LET r1 == DbStorage(r, o, address, slots[i])
    IN  IF r1.ret # "run" THEN r1
        ELSE
        LET addr_bytes == address_to_bytes(address)
            slot_bytes == u256_to_be_bytes(slots[i])
            value_bytes == u256_to_be_bytes(r.db.sto[<<address, slots[i]>>])
            r2 == evm_set_storage(r1, o, handle, addr_bytes, slot_bytes, value_bytes)
        IN  IF ~LastOk(r2) THEN Fail(r2, "Ffi", "evm_set_storage")
            ELSE SyncSlotsFrom(r2, o, handle, address, slots, i + 1)

sync_storage_slots_to_ffi(r, o, handle, address, slots) ==
    IF handle = NULL THEN Fail(r, "Ffi", "null handle")
    ELSE SyncSlotsFrom(r, o, handle, address, slots, 1)

\* Faulty variant: the handle is passed to the engine without the null check.
read_storage_unchecked(r, o, handle, address, slot) ==
    LET r1 == evm_get_storage(r, o, handle, address_to_bytes(address), u256_to_be_bytes(slot))
        value_bytes == r1.calls[Len(r1.calls)].b
    IN  IF ~LastOk(r1) THEN Fail(r1, "Err", "evm_get_storage failed")
        ELSE [r1 EXCEPT !.ret = "Ok",
                        !.out = [result |-> [tag |-> "U256", value |-> u256_from_be_bytes(value_bytes)],
                                 state |-> EmptyMap]]

\* read_storage_from_ffi (database_bridge.rs:163-188): Result<U256, &'static str>
read_storage_from_ffi(r, o, handle, address, slot) ==
    IF handle = NULL THEN Fail(r, "Err", "null handle in read_storage_from_ffi")
    ELSE
    LET addr_bytes == address_to_bytes(address)
        key_bytes == u256_to_be_bytes(slot)
        r1 == evm_get_storage(r, o, handle, addr_bytes, key_bytes)
        value_bytes == r1.calls[Len(r1.calls)].b
    IN  IF ~LastOk(r1) THEN Fail(r1, "Err", "evm_get_storage failed")
        ELSE [r1 EXCEPT !.ret = "Ok",
                        !.out = [result |-> [tag |-> "U256", value |-> u256_from_be_bytes(value_bytes)],
                                 state |-> EmptyMap]]

\* ---------------------------------------------------------------- evm.rs
\* Faulty variant: the pre-sync list runs one slot past the window.
common_slots_one_more == [i \in 1..(NumCommonSlots + 1) |-> i - 1]

common_slots == [i \in 1..NumCommonSlots |-> i - 1]

\* evm.rs:383-390: topic t is the word topics_buf[t * 32 .. t * 32 + 32].
TopicsOf(topics_buf, topics_count) ==
    [t \in 1..topics_count |->
        BeValue(SubSeq(topics_buf, (t - 1) * WordLen + 1, (t - 1) * WordLen + WordLen))]

\* data_buf after the call: DataBufLen bytes, zero past what the engine wrote.
DataBuf(written) == [len |-> DataBufLen, written |-> written]

\* Vec::truncate (evm.rs:391), then the bytes of the vector: a length that is
\* not below the vector's own leaves it as it is.
truncate(vec, len) ==
    LET n == IF len < vec.len THEN len ELSE vec.len
    IN  [j \in 1..n |-> IF j <= Len(vec.written) THEN vec.written[j] ELSE 0]

\* Faulty variant: the enumeration of logs stops at the first index that fails.
RECURSIVE ReadLogs_break(_, _, _, _, _)
ReadLogs_break(r, rep, handle, i, logs) ==
    IF i >= Len(rep.logs) THEN [run |-> r, logs |-> logs]
    ELSE
    LET r1 == evm_get_log(r, rep, handle, i)
        buf == LogOut(rep.logs[i + 1], DataBufLen)
        log == [address |-> address_from_bytes(buf.log_address),
                topics |-> TopicsOf(buf.topics_buf, buf.topics_count),
                data |-> truncate(DataBuf(buf.data_written), buf.data_len)]
    IN  IF LastOk(r1) THEN ReadLogs_break(r1, rep, handle, i + 1, Append(logs, log))
        ELSE [run |-> r1, logs |-> logs]

\* evm.rs:364-398, the body of `for i in 0..log_count`, from index i on.
RECURSIVE ReadLogs(_, _, _, _, _)
ReadLogs(r, rep, handle, i, logs) ==
    IF i >= Len(rep.logs) THEN [run |-> r, logs |-> logs]
    ELSE
    LET r1 == evm_get_log(r, rep, handle, i)
        ok == LastOk(r1)
        buf == LogOut(rep.logs[i + 1], DataBufLen)
        address == address_from_bytes(buf.log_address)
        topics == TopicsOf(buf.topics_buf, buf.topics_count)
        data == truncate(DataBuf(buf.data_written), buf.data_len)
        log == [address |-> address, topics |-> topics, data |-> data]
    IN  ReadLogs(r1, rep, handle, i + 1, IF ok THEN Append(logs, log) ELSE logs)

\* Faulty variant: a slot that already has an entry keeps its first value.
InsertChange_keeping_first(m, addr, slot, value) ==
    LET inner == IF addr \in DOMAIN m THEN m[addr] ELSE EmptyMap
        inner2 == [s \in DOMAIN inner \cup {slot} |-> IF s \in DOMAIN inner THEN inner[s] ELSE value]
    IN  [a \in DOMAIN m \cup {addr} |-> IF a = addr THEN inner2 ELSE m[a]]

\* Faulty variant: the slot map of the address is replaced, not extended.
InsertChange_replacing(m, addr, slot, value) ==
    [a \in DOMAIN m \cup {addr} |-> IF a = addr THEN [s \in {slot} |-> value] ELSE m[a]]

\* changes_by_address.entry(addr).or_insert_with(HashMap::new).insert(slot, value)
InsertChange(m, addr, slot, value) ==
    LET inner == IF addr \in DOMAIN m THEN m[addr] ELSE EmptyMap
        inner2 == [s \in DOMAIN inner \cup {slot} |-> IF s = slot THEN value ELSE inner[s]]
    IN  [a \in DOMAIN m \cup {addr} |-> IF a = addr THEN inner2 ELSE m[a]]

\* evm.rs:425-447, the body of `for i in 0..change_count`, from index i on.
RECURSIVE ReadChanges(_, _, _, _, _)
ReadChanges(r, rep, handle, i, m) ==
    IF i >= Len(rep.changes) THEN [run |-> r, changes_by_address |-> m]
    ELSE
    LET r1 == evm_get_storage_change(r, rep, handle, i)
        ok == LastOk(r1)
        buf == ChangeOut(rep.changes[i + 1])
        addr == address_from_bytes(buf.addr_bytes)
        slot == u256_from_be_bytes(buf.slot_bytes)
        value == u256_from_be_bytes(buf.value_bytes)
    IN  ReadChanges(r1, rep, handle, i + 1,
                    IF ok THEN InsertChange(m, addr, slot, value) ELSE m)

DefaultAccountInfo == [balance |-> 0, nonce |-> 0, code |-> NoCode]

\* Faulty variant: the original value of a slot is the value the ledger holds.
BuildState_with_ledger_original(changes_by_address) ==
    [addr \in DOMAIN changes_by_address |->
        [info |-> DefaultAccountInfo,
         status |-> "Touched",
         transaction_id |-> 0,
         storage |-> [slot \in DOMAIN changes_by_address[addr] |->
                        [original_value |-> db.sto[<<addr, slot>>],
                         present_value |-> changes_by_address[addr][slot],
                         transaction_id |-> 0,
                         is_cold |-> FALSE]]]]

\* evm.rs:450-471
BuildState(changes_by_address) ==
    [addr \in DOMAIN changes_by_address |->
        [info |-> DefaultAccountInfo,
         status |-> "Touched",
         transaction_id |-> 0,
         storage |-> [slot \in DOMAIN changes_by_address[addr] |->
                        [original_value |-> 0,
                         present_value |-> changes_by_address[addr][slot],
                         transaction_id |-> 0,
                         is_cold |-> FALSE]]]]

\* Faulty variant: the refund counter of the engine is not carried.
AssembleResult_no_refund(is_success, gas_used_u, gas_refund, logs, output_buf) ==
    IF is_success
    THEN [tag |-> "Success", reason |-> "Return", gas_used |-> gas_used_u,
          gas_refunded |-> 0, logs |-> logs, output |-> output_buf]
    ELSE [tag |-> "Revert", gas_used |-> gas_used_u, output |-> output_buf]

\* evm.rs:400-415: the ExecutionResult of a completed execution.
AssembleResult(is_success, gas_used_u, gas_refund, logs, output_buf) ==
    IF is_success
    THEN [tag |-> "Success", reason |-> "Return", gas_used |-> gas_used_u,
          gas_refunded |-> gas_refund, logs |-> logs, output |-> output_buf]
    ELSE [tag |-> "Revert", gas_used |-> gas_used_u, output |-> output_buf]

\* Faulty variant: the gas used is counted from the number of the handle.
ExtractResult_per_handle(r, rep, handle) ==
    LET r1 == evm_get_gas_used(r, rep, handle)
        gas_used == rep.gas
        r2 == evm_is_success(r1, rep, handle)
        is_success == LastOk(r2)
        r3 == evm_get_output_len(r2, rep, handle)
        output_len == Len(rep.output)
        r4 == IF output_len > 0 THEN evm_get_output(r3, rep, handle, output_len) ELSE r3
        output_buf == IF output_len > 0 THEN OutputBuf(rep, output_len)
                      ELSE [j \in 1..output_len |-> 0]
        r5 == evm_get_gas_refund(r4, rep, handle)
        gas_refund == rep.refund
        r6 == evm_get_log_count(r5, rep, handle)
        lg == ReadLogs(r6, rep, handle, 0, <<>>)
        gas_used_u == i64_to_u64_gas(gas_used) + handle
        result == AssembleResult(is_success, gas_used_u, gas_refund, lg.logs, output_buf)
        r7 == evm_get_storage_change_count(lg.run, rep, handle)
        ch == ReadChanges(r7, rep, handle, 0, EmptyMap)
    IN  [ch.run EXCEPT !.ret = "Ok",
                       !.out = [result |-> result, state |-> BuildState(ch.changes_by_address)]]

\* Faulty variant: evm_get_output is called whatever the length.
ExtractResult_always_copying(r, rep, handle) ==
    LET r1 == evm_get_gas_used(r, rep, handle)
        gas_used == rep.gas
        r2 == evm_is_success(r1, rep, handle)
        is_success == LastOk(r2)
        r3 == evm_get_output_len(r2, rep, handle)
        output_len == Len(rep.output)
        r4 == evm_get_output(r3, rep, handle, output_len)
        output_buf == OutputBuf(rep, output_len)
        r5 == evm_get_gas_refund(r4, rep, handle)
        gas_refund == rep.refund
        r6 == evm_get_log_count(r5, rep, handle)
        lg == ReadLogs(r6, rep, handle, 0, <<>>)
        gas_used_u == i64_to_u64_gas(gas_used)
        result == AssembleResult(is_success, gas_used_u, gas_refund, lg.logs, output_buf)
        r7 == evm_get_storage_change_count(lg.run, rep, handle)
        ch == ReadChanges(r7, rep, handle, 0, EmptyMap)
    IN  [ch.run EXCEPT !.ret = "Ok",
                       !.out = [result |-> result, state |-> BuildState(ch.changes_by_address)]]

\* Faulty variant: the enumerated storage changes are written to the ledger.
ExtractResult_committing(r, rep, handle) ==
    LET r1 == evm_get_gas_used(r, rep, handle)
        gas_used == rep.gas
        r2 == evm_is_success(r1, rep, handle)
        is_success == LastOk(r2)
        r3 == evm_get_output_len(r2, rep, handle)
        output_len == Len(rep.output)
        r4 == IF output_len > 0 THEN evm_get_output(r3, rep, handle, output_len) ELSE r3
        output_buf == IF output_len > 0 THEN OutputBuf(rep, output_len)
                      ELSE [j \in 1..output_len |-> 0]
        r5 == evm_get_gas_refund(r4, rep, handle)
        gas_refund == rep.refund
        r6 == evm_get_log_count(r5, rep, handle)
        lg == ReadLogs(r6, rep, handle, 0, <<>>)
        gas_used_u == i64_to_u64_gas(gas_used)
        result == AssembleResult(is_success, gas_used_u, gas_refund, lg.logs, output_buf)
        r7 == evm_get_storage_change_count(lg.run, rep, handle)
        ch == ReadChanges(r7, rep, handle, 0, EmptyMap)
        m == ch.changes_by_address
        sto == [p \in DOMAIN r.db.sto |->
                    IF p[1] \in DOMAIN m /\ p[2] \in DOMAIN m[p[1]] THEN m[p[1]][p[2]]
                    ELSE r.db.sto[p]]
    IN  [ch.run EXCEPT !.ret = "Ok", !.db.sto = sto,
                       !.out = [result |-> result, state |-> BuildState(ch.changes_by_address)]]

\* evm.rs:345-473: the result extraction of transact, after evm_execute
\* returned true.
ExtractResult(r, rep, handle) ==
    LET r1 == evm_get_gas_used(r, rep, handle)
        gas_used == rep.gas
        r2 == evm_is_success(r1, rep, handle)
        is_success == LastOk(r2)
        r3 == evm_get_output_len(r2, rep, handle)
        output_len == Len(rep.output)
        r4 == IF output_len > 0 THEN evm_get_output(r3, rep, handle, output_len) ELSE r3
        output_buf == IF output_len > 0 THEN OutputBuf(rep, output_len)
                      ELSE [j \in 1..output_len |-> 0]
        r5 == evm_get_gas_refund(r4, rep, handle)
        gas_refund == rep.refund
        r6 == evm_get_log_count(r5, rep, handle)
        lg == ReadLogs(r6, rep, handle, 0, <<>>)
        gas_used_u == i64_to_u64_gas(gas_used)
        result == AssembleResult(is_success, gas_used_u, gas_refund, lg.logs, output_buf)
        r7 == evm_get_storage_change_count(lg.run, rep, handle)
        ch == ReadChanges(r7, rep, handle, 0, EmptyMap)
    IN  [ch.run EXCEPT !.ret = "Ok",
                       !.out = [result |-> result, state |-> BuildState(ch.changes_by_address)]]

ExecuteFailed == "evm_execute failed - execution did not complete"

\* Faulty variant: the result of evm_execute is not checked.
SetContextAndExecute_unchecked(r, o, handle) ==
    ExtractResult(evm_execute(evm_set_blockchain_context(r, handle), o, handle), o.rep, handle)

\* Faulty variant: evm_execute runs before the blockchain context is pushed.
SetContextAndExecute_early(r, o, handle) ==
    LET r7 == evm_execute(r, o, handle)
        r8 == evm_set_blockchain_context(r7, handle)
    IN  IF ~LastOk(r7) THEN Fail(r7, "Ffi", ExecuteFailed)
        ELSE ExtractResult(r8, o.rep, handle)

\* evm.rs:309-343: the blockchain context, then evm_execute and its check.
SetContextAndExecute(r, o, handle) ==
    LET r7 == evm_set_blockchain_context(r, handle)
        r8 == evm_execute(r7, o, handle)
    IN  IF ~LastOk(r8) THEN Fail(r8, "Ffi", ExecuteFailed)
        ELSE ExtractResult(r8, o.rep, handle)

\* Faulty variant: the transaction data is pushed as bytecode whatever the kind.
transact_data_as_code(r, o, handle, tx) ==
    LET r1 == IF tx.kind = "Call" THEN DbBasic(r, o, tx.to) ELSE r
        acc == r.db.acc[tx.to]
        contract_addr == IF tx.kind = "Call" THEN tx.to ELSE ZERO
        bytecode == tx.data
    IN  IF r1.ret # "run" THEN r1
        ELSE
        LET r2 == sync_account_to_ffi(r1, o, handle, tx.caller)
        IN  IF r2.ret # "run" THEN r2
        ELSE
        LET r3 == sync_account_to_ffi(r2, o, handle, contract_addr)
        IN  IF r3.ret # "run" THEN r3
        ELSE
        LET r4 == sync_storage_slots_to_ffi(r3, o, handle, contract_addr, common_slots)
        IN  IF r4.ret # "run" THEN r4
        ELSE
        LET r5 == evm_set_bytecode(r4, o, handle, bytecode)
        IN  IF ~LastOk(r5) THEN Fail(r5, "Ffi", "evm_set_bytecode")
        ELSE
        LET caller_bytes == address_to_bytes(tx.caller)
            address_bytes == address_to_bytes(contract_addr)
            value_bytes == u256_to_be_bytes(tx.value)
            r6 == evm_set_execution_context(r5, o, handle, u64_as_i64(tx.gas_limit), caller_bytes,
                                            address_bytes,
                                            value_bytes, tx.data)
        IN  IF ~LastOk(r6) THEN Fail(r6, "Ffi", "evm_set_execution_context")
        ELSE
        SetContextAndExecute(r6, o, handle)

\* Faulty variant: the storage window of the caller is pre-synced.
transact_caller_window(r, o, handle, tx) ==
    LET r1 == IF tx.kind = "Call" THEN DbBasic(r, o, tx.to) ELSE r
        acc == r.db.acc[tx.to]
        contract_addr == IF tx.kind = "Call" THEN tx.to ELSE ZERO
        bytecode == IF tx.kind = "Call"
                    THEN (IF acc.some /\ acc.code.some THEN acc.code.bytes ELSE <<>>)
                    ELSE tx.data
    IN  IF r1.ret # "run" THEN r1
        ELSE
        LET r2 == sync_account_to_ffi(r1, o, handle, tx.caller)
        IN  IF r2.ret # "run" THEN r2
        ELSE
        LET r3 == sync_account_to_ffi(r2, o, handle, contract_addr)
        IN  IF r3.ret # "run" THEN r3
        ELSE
        LET r4 == sync_storage_slots_to_ffi(r3, o, handle, tx.caller, common_slots)
        IN  IF r4.ret # "run" THEN r4
        ELSE
        LET r5 == evm_set_bytecode(r4, o, handle, bytecode)
        IN  IF ~LastOk(r5) THEN Fail(r5, "Ffi", "evm_set_bytecode")
        ELSE
        LET caller_bytes == address_to_bytes(tx.caller)
            address_bytes == address_to_bytes(contract_addr)
            value_bytes == u256_to_be_bytes(tx.value)
            r6 == evm_set_execution_context(r5, o, handle, u64_as_i64(tx.gas_limit), caller_bytes,
                                            address_bytes,
                                            value_bytes, tx.data)
        IN  IF ~LastOk(r6) THEN Fail(r6, "Ffi", "evm_set_execution_context")
        ELSE
        SetContextAndExecute(r6, o, handle)

\* Faulty variant: the bytecode is pushed only into an engine that holds none.
transact_keeping_bytecode(r, o, handle, tx) ==
    LET r1 == IF tx.kind = "Call" THEN DbBasic(r, o, tx.to) ELSE r
        acc == r.db.acc[tx.to]
        contract_addr == IF tx.kind = "Call" THEN tx.to ELSE ZERO
        bytecode == IF tx.kind = "Call"
                    THEN (IF acc.some /\ acc.code.some THEN acc.code.bytes ELSE <<>>)
                    ELSE tx.data
    IN  IF r1.ret # "run" THEN r1
        ELSE
        LET r2 == sync_account_to_ffi(r1, o, handle, tx.caller)
        IN  IF r2.ret # "run" THEN r2
        ELSE
        LET r3 == sync_account_to_ffi(r2, o, handle, contract_addr)
        IN  IF r3.ret # "run" THEN r3
        ELSE
        LET r4 == sync_storage_slots_to_ffi(r3, o, handle, contract_addr, common_slots)
        IN  IF r4.ret # "run" THEN r4
        ELSE
        LET r5 == IF r4.eng.bytecode.some THEN r4 ELSE evm_set_bytecode(r4, o, handle, bytecode)
        IN  IF ~LastOk(r5) THEN Fail(r5, "Ffi", "evm_set_bytecode")
        ELSE
        LET caller_bytes == address_to_bytes(tx.caller)
            address_bytes == address_to_bytes(contract_addr)
            value_bytes == u256_to_be_bytes(tx.value)
            r6 == evm_set_execution_context(r5, o, handle, u64_as_i64(tx.gas_limit), caller_bytes,
                                            address_bytes,
                                            value_bytes, tx.data)
        IN  IF ~LastOk(r6) THEN Fail(r6, "Ffi", "evm_set_execution_context")
        ELSE
        SetContextAndExecute(r6, o, handle)

\* evm.rs:222-307: GuillotineMiniEvm::transact up to the execution context.
transact(r, o, handle, tx) ==
    LET r1 == IF tx.kind = "Call" THEN DbBasic(r, o, tx.to) ELSE r
        acc == r.db.acc[tx.to]
        contract_addr == IF tx.kind = "Call" THEN tx.to ELSE ZERO
        bytecode == IF tx.kind = "Call"
                    THEN (IF acc.some /\ acc.code.some THEN acc.code.bytes ELSE <<>>)
                    ELSE tx.data
    IN  IF r1.ret # "run" THEN r1
        ELSE
        LET r2 == sync_account_to_ffi(r1, o, handle, tx.caller)
        IN  IF r2.ret # "run" THEN r2
        ELSE
        LET r3 == sync_account_to_ffi(r2, o, handle, contract_addr)
        IN  IF r3.ret # "run" THEN r3
        ELSE
        LET r4 == sync_storage_slots_to_ffi(r3, o, handle, contract_addr, common_slots)
        IN  IF r4.ret # "run" THEN r4
        ELSE
        LET r5 == evm_set_bytecode(r4, o, handle, bytecode)
        IN  IF ~LastOk(r5) THEN Fail(r5, "Ffi", "evm_set_bytecode")
        ELSE
        LET caller_bytes == address_to_bytes(tx.caller)
            address_bytes == address_to_bytes(contract_addr)
            value_bytes == u256_to_be_bytes(tx.value)
            r6 == evm_set_execution_context(r5, o, handle, u64_as_i64(tx.gas_limit), caller_bytes,
                                            address_bytes,
                                            value_bytes, tx.data)
        IN  IF ~LastOk(r6) THEN Fail(r6, "Ffi", "evm_set_execution_context")
        ELSE
        SetContextAndExecute(r6, o, handle)

\* Faulty variant: the drop does not release the engine handle.
drop_leaking(r, handle) == r

\* impl Drop for GuillotineMiniEvm (evm.rs:477-483)
drop(r, handle) == FfiGet(r, Ev("evm_destroy", handle, 0, 0, 0, <<>>, TRUE))

\* primitives::hardfork::SpecId as the constructors match on it: the tags
\* the match names, and a tag it does not name (revm adds one per new fork).
ListedSpecIds ==
    { "FRONTIER", "FRONTIER_THAWING", "HOMESTEAD", "DAO_FORK", "TANGERINE",
      "SPURIOUS_DRAGON", "BYZANTIUM", "CONSTANTINOPLE", "PETERSBURG", "ISTANBUL",
      "MUIR_GLACIER", "BERLIN", "LONDON", "ARROW_GLACIER", "GRAY_GLACIER", "MERGE",
      "SHANGHAI", "CANCUN", "PRAGUE", "OSAKA" }
SpecIds == ListedSpecIds \cup { "AMSTERDAM" }

\* let hardfork_name = match ctx.cfg.spec() { .. } in new (evm.rs:127-143)
new_hardfork_name(spec) ==
    CASE spec \in {"FRONTIER", "FRONTIER_THAWING"} -> "Frontier"
      [] spec \in {"HOMESTEAD", "DAO_FORK"} -> "Homestead"
      [] spec = "TANGERINE" -> "Tangerine"
      [] spec = "SPURIOUS_DRAGON" -> "Spurious"
      [] spec = "BYZANTIUM" -> "Byzantium"
      [] spec \in {"CONSTANTINOPLE", "PETERSBURG"} -> "Constantinople"
      [] spec \in {"ISTANBUL", "MUIR_GLACIER"} -> "Istanbul"
      [] spec = "BERLIN" -> "Berlin"
      [] spec \in {"LONDON", "ARROW_GLACIER", "GRAY_GLACIER"} -> "London"
      [] spec = "MERGE" -> "Merge"
      [] spec = "SHANGHAI" -> "Shanghai"
      [] spec = "CANCUN" -> "Cancun"
      [] spec = "PRAGUE" -> "Prague"
      [] spec = "OSAKA" -> "Osaka"
      [] OTHER -> "Cancun"

\* Faulty variant: a tag the match does not name selects the newest fork.
try_new_hardfork_name_newest(spec) ==
    IF spec \in ListedSpecIds THEN new_hardfork_name(spec) ELSE "Osaka"

\* let hardfork_name = match ctx.cfg.spec() { .. } in try_new (evm.rs:164-180)
try_new_hardfork_name(spec) ==
    CASE spec \in {"FRONTIER", "FRONTIER_THAWING"} -> "Frontier"
      [] spec \in {"HOMESTEAD", "DAO_FORK"} -> "Homestead"
      [] spec = "TANGERINE" -> "Tangerine"
      [] spec = "SPURIOUS_DRAGON" -> "Spurious"
      [] spec = "BYZANTIUM" -> "Byzantium"
      [] spec \in {"CONSTANTINOPLE", "PETERSBURG"} -> "Constantinople"
      [] spec \in {"ISTANBUL", "MUIR_GLACIER"} -> "Istanbul"
      [] spec = "BERLIN" -> "Berlin"
      [] spec \in {"LONDON", "ARROW_GLACIER", "GRAY_GLACIER"} -> "London"
      [] spec = "MERGE" -> "Merge"
      [] spec = "SHANGHAI" -> "Shanghai"
      [] spec = "CANCUN" -> "Cancun"
      [] spec = "PRAGUE" -> "Prague"
      [] spec = "OSAKA" -> "Osaka"
      [] OTHER -> "Cancun"

\* GuillotineMiniEvm::new / try_new (evm.rs:125-187): the handle evm_create
\* returned (NULL on failure) decides whether an instance exists.
new(handle) ==
    IF handle = NULL THEN [st |-> "failed", handle |-> NULL, ret |-> "panic", err |-> "Failed to create guillotine-mini EVM"]
    ELSE [st |-> "live", handle |-> handle, ret |-> "Ok", err |-> ""]

\* Faulty variant: the handle is not checked for null.
try_new_unchecked(handle) == [st |-> "live", handle |-> handle, ret |-> "Ok", err |-> ""]

try_new(handle) ==
    IF handle = NULL THEN [st |-> "failed", handle |-> NULL, ret |-> "Ffi", err |-> "evm_create"]
    ELSE [st |-> "live", handle |-> handle, ret |-> "Ok", err |-> ""]

\* -------------------------------------------------------------- config.rs
\* A value of EvmConfigBuilder or EvmConfig: whether it exists, its handle
\* field and the boxes (by id) its two handler vectors own.
NoValue == [st |-> "none", handle |-> NULL, opcode_handlers |-> <<>>, precompile_handlers |-> <<>>]
CEv(fn, h, id, ok) == [fn |-> fn, h |-> h, id |-> id, ok |-> ok]

\* Faulty variant: the builder's drop frees the boxes but not the handle.
EvmConfigBuilder_drop_keeping_handle(self) ==
    [j \in 1..Len(self.opcode_handlers) |-> CEv("box_free", NULL, self.opcode_handlers[j], TRUE)]
    \o [j \in 1..Len(self.precompile_handlers) |->
            CEv("box_free", NULL, self.precompile_handlers[j], TRUE)]

\* impl Drop for EvmConfigBuilder (config.rs:393-401), then the drop of its
\* fields: the boxes of both vectors are freed.
EvmConfigBuilder_drop(self) ==
    (IF self.handle # NULL THEN << CEv("evm_config_destroy", self.handle, 0, TRUE) >> ELSE << >>)
    \o [j \in 1..Len(self.opcode_handlers) |-> CEv("box_free", NULL, self.opcode_handlers[j], TRUE)]
    \o [j \in 1..Len(self.precompile_handlers) |->
            CEv("box_free", NULL, self.precompile_handlers[j], TRUE)]

\* Faulty variant: the handle is destroyed but the handler vectors are kept.
EvmConfig_drop_leaking(self) ==
    IF self.handle # NULL THEN << CEv("evm_config_destroy", self.handle, 0, TRUE) >> ELSE << >>

\* impl Drop for EvmConfig (config.rs:427-435), then the drop of its fields.
EvmConfig_drop(self) ==
    (IF self.handle # NULL THEN << CEv("evm_config_destroy", self.handle, 0, TRUE) >> ELSE << >>)
    \o [j \in 1..Len(self.opcode_handlers) |-> CEv("box_free", NULL, self.opcode_handlers[j], TRUE)]
    \o [j \in 1..Len(self.precompile_handlers) |->
            CEv("box_free", NULL, self.precompile_handlers[j], TRUE)]

\* EvmConfigBuilder::new (config.rs:153-162): `handle` is what
\* evm_config_create returned.
EvmConfigBuilder_new(handle) ==
    LET calls == << CEv("evm_config_create", handle, 0, handle # NULL) >>
    IN  IF handle = NULL
        THEN [b |-> [NoValue EXCEPT !.st = "failed"], c |-> NoValue, calls |-> calls, ret |-> "panic"]
        ELSE [b |-> [NoValue EXCEPT !.st = "live", !.handle = handle], c |-> NoValue,
              calls |-> calls, ret |-> "Ok"]

\* The scalar setters (config.rs:172-262): one engine call, self returned.
Setters ==
    { "evm_config_set_hardfork", "evm_config_set_stack_size", "evm_config_set_max_bytecode_size",
      "evm_config_set_max_initcode_size", "evm_config_set_block_gas_limit",
      "evm_config_set_memory_initial_capacity", "evm_config_set_memory_limit",
      "evm_config_set_max_call_depth", "evm_config_set_loop_quota",
      "evm_config_enable_system_contracts" }
setter(self, fn) ==
    [b |-> self, c |-> NoValue, calls |-> << CEv(fn, self.handle, 0, TRUE) >>, ret |-> "Ok"]

\* Faulty variant: a rejected handler is left allocated.
override_opcode_leaking(self, id, success) ==
    LET calls == << CEv("box_new", NULL, id, TRUE),
                    CEv("evm_config_add_opcode_override", self.handle, id, success) >>
    IN  IF success
        THEN [b |-> [self EXCEPT !.opcode_handlers = Append(@, id)], c |-> NoValue,
              calls |-> calls, ret |-> "Ok"]
        ELSE [b |-> [NoValue EXCEPT !.st = "gone"], c |-> NoValue,
              calls |-> calls \o EvmConfigBuilder_drop(self), ret |-> "panic"]

\* override_opcode (config.rs:287-312): box the handler as `id`, register it;
\* on failure free the box and panic, which unwinds and drops self.
override_opcode(self, id, success) ==
    LET calls == << CEv("box_new", NULL, id, TRUE),
                    CEv("evm_config_add_opcode_override", self.handle, id, success) >>
    IN  IF success
        THEN [b |-> [self EXCEPT !.opcode_handlers = Append(@, id)], c |-> NoValue,
              calls |-> calls, ret |-> "Ok"]
        ELSE [b |-> [NoValue EXCEPT !.st = "gone"], c |-> NoValue,
              calls |-> calls \o << CEv("box_free", NULL, id, TRUE) >> \o EvmConfigBuilder_drop(self),
              ret |-> "panic"]

\* override_precompile (config.rs:344-377)
override_precompile(self, id, success) ==
    LET calls == << CEv("box_new", NULL, id, TRUE),
                    CEv("evm_config_add_precompile_override", self.handle, id, success) >>
    IN  IF success
        THEN [b |-> [self EXCEPT !.precompile_handlers = Append(@, id)], c |-> NoValue,
              calls |-> calls, ret |-> "Ok"]
        ELSE [b |-> [NoValue EXCEPT !.st = "gone"], c |-> NoValue,
              calls |-> calls \o << CEv("box_free", NULL, id, TRUE) >> \o EvmConfigBuilder_drop(self),
              ret |-> "panic"]

\* Faulty variant: build moves the handle but leaves the handlers in the builder.
build_leaving_handlers(self) ==
    [b |-> [NoValue EXCEPT !.st = "gone"],
     c |-> [st |-> "live", handle |-> self.handle,
            opcode_handlers |-> << >>, precompile_handlers |-> << >>],
     calls |-> EvmConfigBuilder_drop([self EXCEPT !.handle = NULL]),
     ret |-> "Ok"]

\* Faulty variant: build moves the handle without nulling the builder's copy.
build_keeping_handle(self) ==
    [b |-> [NoValue EXCEPT !.st = "gone"],
     c |-> [st |-> "live", handle |-> self.handle,
            opcode_handlers |-> self.opcode_handlers,
            precompile_handlers |-> self.precompile_handlers],
     calls |-> EvmConfigBuilder_drop([self EXCEPT !.opcode_handlers = << >>,
                                                  !.precompile_handlers = << >>]),
     ret |-> "Ok"]

\* build (config.rs:381-390): the handle and both vectors move into the
\* EvmConfig; what is left of self is dropped when build returns.
build(self) ==
    LET handle == self.handle
        self1 == [self EXCEPT !.handle = NULL]
        config == [st |-> "live", handle |-> handle,
                   opcode_handlers |-> self1.opcode_handlers,
                   precompile_handlers |-> self1.precompile_handlers]
        self2 == [self1 EXCEPT !.opcode_handlers = << >>, !.precompile_handlers = << >>]
    IN  [b |-> [NoValue EXCEPT !.st = "gone"], c |-> config,
         calls |-> EvmConfigBuilder_drop(self2), ret |-> "Ok"]

\* Faulty variant: self is dropped, not forgotten, once its handle is null.
into_raw_dropping_self(self) ==
    LET self1 == [self EXCEPT !.handle = NULL]
    IN  [c |-> [NoValue EXCEPT !.st = "gone"], raw |-> self.handle, calls |-> EvmConfig_drop(self1)]

\* into_raw (config.rs:419-424): the handle leaves, self is forgotten.
into_raw(self) ==
    LET handle == self.handle
        self1 == [self EXCEPT !.handle = NULL]
    IN  [c |-> [self1 EXCEPT !.st = "forgotten"], raw |-> handle, calls |-> << >>]

\* The engine instance of the disabled constructor: no instance yet.
NoEvm == [st |-> "none", handle |-> NULL]

\* Faulty variant: the config is dropped after its handle was passed on.
with_config_dropping_config(config, handle) ==
    LET calls == << CEv("evm_create_with_config", config.handle, handle, handle # NULL) >>
                 \o EvmConfig_drop(config)
    IN  [c |-> [NoValue EXCEPT !.st = "gone"], raw |-> config.handle, calls |-> calls,
         evm |-> IF handle = NULL THEN [st |-> "failed", handle |-> NULL]
                 ELSE [st |-> "live", handle |-> handle],
         ret |-> IF handle = NULL THEN "Ffi" ELSE "Ok",
         err |-> IF handle = NULL THEN "evm_create_with_config" ELSE ""]

\* GuillotineMiniEvm::with_config (evm.rs:208-218, disabled pending the
\* engine's config functions): into_raw, then evm_create_with_config, whose
\* answer `handle` (NULL on failure) decides whether an instance exists.
with_config(config, handle) ==
    LET x == into_raw(config)
        config_handle == x.raw
        calls == x.calls \o << CEv("evm_create_with_config", config_handle, handle, handle # NULL) >>
    IN  [c |-> x.c, raw |-> x.raw, calls |-> calls,
         evm |-> IF handle = NULL THEN [st |-> "failed", handle |-> NULL]
                 ELSE [st |-> "live", handle |-> handle],
         ret |-> IF handle = NULL THEN "Ffi" ELSE "Ok",
         err |-> IF handle = NULL THEN "evm_create_with_config" ELSE ""]

\* A raw pointer argument of a trampoline: null, or the bytes it points to.
NullPtr == [null |-> TRUE, mem |-> << >>]
Ptr(mem) == [null |-> FALSE, mem |-> mem]

\* The out-parameters of precompile_trampoline: which were written, and the
\* Vec<u8> (ptr/len/capacity) whose ownership was abandoned to the caller.
NoWrites ==
    [written |-> {}, output_len |-> 0, gas_used |-> 0, output |-> [data |-> << >>, cap |-> 0],
     forgotten |-> FALSE]

\* What a trampoline call did: its answer, the handler invocations, the
\* arguments the handler saw and the out-parameters.
Trampolined(fn, ctx, ret, calls, view, out) ==
    [fn |-> fn, ctx |-> ctx, ret |-> ret, calls |-> calls, view |-> view, out |-> out]
NoTramp == Trampolined("none", NULL, FALSE, << >>, << >>, NoWrites)

\* Faulty variant: the context token is not checked for null.
opcode_trampoline_unchecked(ctx, frame_ptr, opcode, answer) ==
    Trampolined("opcode_trampoline", ctx, answer,
                << CEv("invoke", NULL, ctx, answer) >>, << frame_ptr, opcode >>, NoWrites)

\* opcode_trampoline (config.rs:449-457): `answer` is what the handler behind
\* ctx returns for (frame_ptr, opcode).
opcode_trampoline(ctx, frame_ptr, opcode, answer) ==
    IF ctx = NULL
    THEN Trampolined("opcode_trampoline", ctx, FALSE, << >>, << >>, NoWrites)
    ELSE Trampolined("opcode_trampoline", ctx, answer,
                     << CEv("invoke", NULL, ctx, answer) >>, << frame_ptr, opcode >>, NoWrites)

\* A Vec<u8>: its bytes and the capacity of its allocation.
Vec(data, cap) == [data |-> data, cap |-> cap]

\* Vec::shrink_to_fit (config.rs:502): the allocation is cut down to the length.
shrink_to_fit(vec) == [vec EXCEPT !.cap = Len(vec.data)]

\* What a handler returns: Ok(PrecompileResult { output, gas_used }) or
\* Err(PrecompileError) (config.rs:121-134).
PrecompileErrors == { "OutOfGas", "InvalidInput", "ExecutionFailed" }
Ok(output, gas_used) == [ok |-> TRUE, err |-> "", output |-> output, gas_used |-> gas_used]
Err(err) == [ok |-> FALSE, err |-> err, output |-> Vec(<< >>, 0), gas_used |-> 0]

\* Faulty variant: a null input pointer is taken as the empty input whatever
\* the length it is paired with.
precompile_trampoline_unvalidated(ctx, address, input, input_len, gas_limit, result) ==
    LET fn == "precompile_trampoline"
        invoke == << CEv("invoke", NULL, ctx, result.ok) >>
        addr_slice == SubSeq(address.mem, 1, AddrLen)
        input_slice == IF input.null THEN << >> ELSE SubSeq(input.mem, 1, input_len)
        view == << addr_slice, input_slice, gas_limit >>
        output_vec == shrink_to_fit(result.output)
    IN  IF ctx = NULL THEN Trampolined(fn, ctx, FALSE, << >>, << >>, NoWrites)
        ELSE IF address.null THEN Trampolined(fn, ctx, FALSE, << >>, << >>, NoWrites)
        ELSE IF result.ok
        THEN Trampolined(fn, ctx, TRUE, invoke \o << CEv("vec_forget", NULL, 0, TRUE) >>, view,
                         [written |-> { "output_ptr", "output_len", "gas_used" },
                          output_len |-> Len(output_vec.data), gas_used |-> result.gas_used,
                          output |-> output_vec, forgotten |-> TRUE])
        ELSE Trampolined(fn, ctx, FALSE, invoke, view, NoWrites)

\* Faulty variant: the output Vec is dropped when the trampoline returns.
precompile_trampoline_dropping_output(ctx, address, input, input_len, gas_limit, result) ==
    LET fn == "precompile_trampoline"
        invoke == << CEv("invoke", NULL, ctx, result.ok) >>
        addr_slice == SubSeq(address.mem, 1, AddrLen)
        input_slice == IF input.null THEN << >> ELSE SubSeq(input.mem, 1, input_len)
        view == << addr_slice, input_slice, gas_limit >>
        output_vec == shrink_to_fit(result.output)
    IN  IF ctx = NULL THEN Trampolined(fn, ctx, FALSE, << >>, << >>, NoWrites)
        ELSE IF address.null THEN Trampolined(fn, ctx, FALSE, << >>, << >>, NoWrites)
        ELSE IF input.null /\ input_len # 0 THEN Trampolined(fn, ctx, FALSE, << >>, << >>, NoWrites)
        ELSE IF result.ok
        THEN Trampolined(fn, ctx, TRUE, invoke \o << CEv("vec_drop", NULL, 0, TRUE) >>, view,
                         [written |-> { "output_ptr", "output_len", "gas_used" },
                          output_len |-> Len(output_vec.data), gas_used |-> result.gas_used,
                          output |-> output_vec, forgotten |-> FALSE])
        ELSE Trampolined(fn, ctx, FALSE, invoke, view, NoWrites)

\* Faulty variant: a handler error still reports the gas through gas_used.
precompile_trampoline_writing_on_error(ctx, address, input, input_len, gas_limit, result) ==
    LET fn == "precompile_trampoline"
        invoke == << CEv("invoke", NULL, ctx, result.ok) >>
        addr_slice == SubSeq(address.mem, 1, AddrLen)
        input_slice == IF input.null THEN << >> ELSE SubSeq(input.mem, 1, input_len)
        view == << addr_slice, input_slice, gas_limit >>
        output_vec == shrink_to_fit(result.output)
    IN  IF ctx = NULL THEN Trampolined(fn, ctx, FALSE, << >>, << >>, NoWrites)
        ELSE IF address.null THEN Trampolined(fn, ctx, FALSE, << >>, << >>, NoWrites)
        ELSE IF input.null /\ input_len # 0 THEN Trampolined(fn, ctx, FALSE, << >>, << >>, NoWrites)
        ELSE IF result.ok
        THEN Trampolined(fn, ctx, TRUE, invoke \o << CEv("vec_forget", NULL, 0, TRUE) >>, view,
                         [written |-> { "output_ptr", "output_len", "gas_used" },
                          output_len |-> Len(output_vec.data), gas_used |-> result.gas_used,
                          output |-> output_vec, forgotten |-> TRUE])
        ELSE Trampolined(fn, ctx, FALSE, invoke, view,
                         [NoWrites EXCEPT !.written = { "gas_used" }, !.gas_used = gas_limit])

\* precompile_trampoline (config.rs:466-518): `result` is what the handler
\* behind ctx returns for the address view, the input view and the gas limit.
\* On Ok the shrunk output Vec is written through the out-parameters and
\* forgotten; on Err nothing is written.
precompile_trampoline(ctx, address, input, input_len, gas_limit, result) ==
    LET fn == "precompile_trampoline"
        invoke == << CEv("invoke", NULL, ctx, result.ok) >>
        addr_slice == SubSeq(address.mem, 1, AddrLen)
        input_slice == IF input.null THEN << >> ELSE SubSeq(input.mem, 1, input_len)
        view == << addr_slice, input_slice, gas_limit >>
        output_vec == shrink_to_fit(result.output)
    IN  IF ctx = NULL THEN Trampolined(fn, ctx, FALSE, << >>, << >>, NoWrites)
        ELSE IF address.null THEN Trampolined(fn, ctx, FALSE, << >>, << >>, NoWrites)
        ELSE IF input.null /\ input_len # 0 THEN Trampolined(fn, ctx, FALSE, << >>, << >>, NoWrites)
        ELSE IF result.ok
        THEN Trampolined(fn, ctx, TRUE, invoke \o << CEv("vec_forget", NULL, 0, TRUE) >>, view,
                         [written |-> { "output_ptr", "output_len", "gas_used" },
                          output_len |-> Len(output_vec.data), gas_used |-> result.gas_used,
                          output |-> output_vec, forgotten |-> TRUE])
        ELSE Trampolined(fn, ctx, FALSE, invoke, view, NoWrites)

\* The arguments of the last trampoline call.
NoArgs ==
    [address |-> NullPtr, input |-> NullPtr, input_len |-> 0, gas_limit |-> 0, result |-> Err("")]

\* The engine's and the allocator's view of a trace of the configuration API:
\* the life of the handle, the state of each handler box, the boxes the engine
\* accepted (reg), and whether an accepted box was freed while the engine
\* could still call it (early).
Registrations == { "evm_config_add_opcode_override", "evm_config_add_precompile_override" }
RECURSIVE CfgBook(_, _, _)
CfgBook(calls, i, k) ==
    IF i > Len(calls) THEN k
    ELSE
    LET e == calls[i]
        k1 == IF e.fn = "evm_config_create"
              THEN [k EXCEPT !.hst = IF e.ok THEN "live" ELSE @]
              ELSE IF e.fn = "evm_config_destroy"
              THEN [k EXCEPT !.hst = "destroyed",
                             !.destroys = IF @ < 2 THEN @ + 1 ELSE @,
                             !.late = @ \/ k.raw # NULL]
              ELSE IF e.fn = "box_new" THEN [k EXCEPT !.box[e.id] = "alloc"]
              ELSE IF e.fn = "box_free"
              THEN [k EXCEPT !.box[e.id] = IF @ = "alloc" THEN "freed" ELSE "double",
                             !.early = @ \/ (e.id \in k.reg /\ (k.hst = "live" \/ k.raw # NULL))]
              ELSE IF e.fn = "invoke"
              THEN [k EXCEPT !.stale = @ \/ e.id \notin DOMAIN k.box \/ k.box[e.id] # "alloc",
                             !.unreg = @ \/ e.id \notin k.reg,
                             !.invoked = @ \cup {e.id}]
              ELSE IF e.fn = "vec_forget" THEN [k EXCEPT !.handed = TRUE]
              ELSE IF e.fn = "vec_drop" THEN [k EXCEPT !.outfreed = TRUE]
              ELSE IF e.fn = "evm_create_with_config"
              THEN [k EXCEPT !.misuse = @ \/ k.hst # "live",
                             !.owner = IF e.ok THEN e.id ELSE @,
                             !.est = IF e.ok THEN "live" ELSE @]
              ELSE IF e.fn = "config_freed"
              THEN [k EXCEPT !.hst = "destroyed", !.efrees = IF @ < 2 THEN @ + 1 ELSE @]
              ELSE IF e.fn = "evm_destroy"
              THEN [k EXCEPT !.emisuse = @ \/ e.h = NULL \/ k.est # "live",
                             !.est = IF e.h = k.owner /\ e.h # NULL THEN "destroyed" ELSE @,
                             !.hst = IF e.h = k.owner /\ k.est = "live" THEN "destroyed" ELSE @,
                             !.efrees = IF e.h = k.owner /\ k.est = "live" /\ @ < 2
                                        THEN @ + 1 ELSE @]
              ELSE [k EXCEPT !.misuse = @ \/ k.hst # "live",
                             !.reg = IF e.fn \in Registrations /\ e.ok THEN @ \cup {e.id} ELSE @,
                             !.regfn[e.id] = IF e.fn \in Registrations /\ e.ok THEN e.fn ELSE @]
    IN  CfgBook(calls, i + 1, k1)

CfgInit ==
    [b |-> NoValue, c |-> NoValue, hst |-> "unborn", destroys |-> 0, late |-> FALSE,
     raw |-> NULL, misuse |-> FALSE, box |-> [id \in 1..MaxOverrides |-> "unalloc"],
     reg |-> {}, regfn |-> [id \in 0..MaxOverrides |-> "none"], early |-> FALSE,
     invoked |-> {}, stale |-> FALSE, unreg |-> FALSE,
     evm |-> NoEvm, owner |-> NULL, est |-> "unborn", efrees |-> 0, emisuse |-> FALSE,
     tramp |-> NoTramp, targs |-> NoArgs, handed |-> FALSE, outfreed |-> FALSE,
     op |-> "init", calls |-> << >>, ret |-> "Ok"]

\* ------------------------------------------------------------- inputs
Datas == { <<>>, <<96, 1>> }
\* The gas limit of the transactions of the tests: 100_000.
DefaultGasLimit == << 0, 0, 1, 34464 >>
SeqTxs == { tx \in [kind : {"Call", "Create"}, to : Addr, caller : Addr, data : {<<96, 1>>}, value : {0},
                    gas_limit : {DefaultGasLimit}] :
            tx.kind = "Create" => tx.to = ZERO }
Txs == { tx \in [kind : {"Call", "Create"}, to : Addr, caller : Addr, data : Datas, value : {0},
                 gas_limit : {DefaultGasLimit}] :
            tx.kind = "Create" => tx.to = ZERO }
NoTx == [kind |-> "none", to |-> 0, caller |-> 0, data |-> <<>>, value |-> 0,
         gas_limit |-> << 0, 0, 0, 0 >>]

SeqsUpTo(S, n) == UNION { [1..k -> S] : k \in 0..n }

Gases == { -2147483647, -1, 0, 3, 2147483647 }
Refunds == { 0, 2 }
Outputs == { <<>>, <<0, 3>> }
LogBodies == { [address |-> 1, topics |-> <<>>, data |-> <<>>],
               [address |-> 0, topics |-> <<7, 8>>, data |-> <<9>>] }
\* Every body can be enumerated; the enumeration of the one at address 0 can fail.
LogEntries == { e \in [ok : BOOLEAN, address : Addr, topics : {<<>>, <<7, 8>>}, data : {<<>>, <<9>>}] :
                  /\ [address |-> e.address, topics |-> e.topics, data |-> e.data] \in LogBodies
                  /\ (~e.ok => e.address = 0) }
ChangeBodies == { <<1, 0, 1>>, <<1, 0, 2>>, <<1, MaxSlot, 3>>, <<0, 0, 1>> }
\* Every change can be enumerated; the enumeration of the first one can fail.
ChangeEntries ==
    { [ok |-> TRUE, address |-> c[1], slot |-> c[2], value |-> c[3]] : c \in ChangeBodies }
    \cup { [ok |-> FALSE, address |-> 1, slot |-> 0, value |-> 1] }
ReportSet(G, R, O, L, C) ==
    [ok : {TRUE}, success : BOOLEAN, gas : G, refund : R, output : O, logs : L, changes : C]

\* The most ledger lookups and fallible engine calls one transact can make.
MaxLookups == 3 + NumCommonSlots
MaxSetters == 3 + 3 + NumCommonSlots + 2

\* Every place one transact can fail at, and the run in which evm_execute
\* itself reports failure.
FailOracles ==
    { Oracle("db", k, e, NoReport) : k \in 1..MaxLookups, e \in DbErrors }
    \cup { Oracle("ffi", k, "", NoReport) : k \in 1..MaxSetters }
    \cup { Oracle("none", 0, "", NoReport) }

\* Reports with one shape of each scalar, at most one log and one storage
\* change, both outcomes.
BasicReports ==
    ReportSet({3}, {2}, {<<0, 3>>},
              SeqsUpTo({ e \in LogEntries : e.ok /\ e.address = 0 }, 1),
              SeqsUpTo({ c \in ChangeEntries : c.ok /\ c.slot = MaxSlot }, 1))
RunOracles == FailOracles \cup { Oracle("none", 0, "", rep) : rep \in BasicReports }

\* Oracles of the lifecycle specification: a failure at the first or second
\* lookup or setter, a failed execute, and the basic reports.
SeqOracles == { o \in RunOracles : o.at <= 2 /\ (o.kind = "db" => o.err = "DbErrA") }

\* Oracles of the extraction specification: no failure before the report, and
\* every report with up to MaxLogs logs and MaxChanges storage changes.
ExtractOracles ==
    { Oracle("none", 0, "", rep) :
        rep \in ReportSet(Gases, Refunds, Outputs, SeqsUpTo(LogEntries, MaxLogs),
                          SeqsUpTo(ChangeEntries, MaxChanges)) }

\* Inputs of the stand-alone bridge calls.
SlotLists == { <<>>, <<MaxSlot>>, <<1, MaxSlot, 0>> }
SyncOracles == { o \in FailOracles : o.at <= 3 }

\* ---------------------------------------------------------- bookkeeping
\* The engine's view of a trace: evm_destroy ends a handle's life, and any
\* call on a handle that is not live is a misuse.
RECURSIVE Book(_, _, _)
Book(calls, i, b) ==
    IF i > Len(calls) THEN b
    ELSE
    LET c == calls[i]
        isDb == c.fn \in {"db.basic", "db.storage"}
        dead == ~isDb /\ (c.h = NULL \/ b.engH[c.h] # "live")
        b1 == [b EXCEPT !.misuse = @ \/ dead]
        b2 == IF ~isDb /\ c.fn = "evm_destroy" /\ c.h # NULL
              THEN [b1 EXCEPT !.engH[c.h] = "destroyed",
                              !.destroys[c.h] = IF @ < 2 THEN @ + 1 ELSE @]
              ELSE b1
    IN  Book(calls, i + 1, b2)

Booked(calls) == Book(calls, 1, [engH |-> engH, destroys |-> destroys, misuse |-> misuse])

\* evm.rs:10 "common storage slots (0-9)": the documented pre-sync window.
Window(address) == { <<address, s>> : s \in 0..9 }
Written(r, o) ==
    IF r.ret = "Ok" THEN { <<o.rep.changes[j].address, o.rep.changes[j].slot>> :
                             j \in 1..Len(o.rep.changes) }
    ELSE {}
ContractAddr(tx) == IF tx.kind = "Call" THEN tx.to ELSE ZERO

NoOracle == Oracle("none", 0, "", NoReport)

\* The record of an operation: its arguments, the oracle's choices for it,
\* its trace and what it returned.
Result(op, h, tx, slots, o, r) ==
    [op |-> op, h |-> h, tx |-> tx, slots |-> slots, o |-> o, calls |-> r.calls,
     ret |-> IF r.ret = "run" THEN "Ok" ELSE r.ret, err |-> r.err, out |-> r.out]

\* ------------------------------------------------------------- actions
Init ==
    /\ db \in Ledgers
    /\ inst = [i \in 1..MaxInst |-> [st |-> "none", handle |-> NULL]]
    /\ engH = [h \in Handle |-> "unborn"]
    /\ destroys = [h \in Handle |-> 0]
    /\ misuse = FALSE
    /\ eng = [h \in Handle |-> FreshEngine]
    /\ req = [h \in Handle |-> {}]
    /\ last = Result("init", NULL, NoTx, <<>>, NoOracle, StartRun(FreshEngine))
    /\ runs = 0
    /\ cfg = CfgInit

\* evm_create: a fresh handle, or NULL.
Created(ok) ==
    IF ok THEN 1 + Cardinality({ h \in Handle : engH[h] # "unborn" }) ELSE NULL

Construct(i, op) ==
    /\ inst[i].st = "none"
    /\ \E ok \in BOOLEAN :
        LET h == Created(ok)
            c == IF op = "new" THEN new(h) ELSE try_new(h)
            r == FfiGet(StartRun(FreshEngine), Ev("evm_create", h, 0, 0, 0, <<>>, ok))
        IN  /\ inst' = [inst EXCEPT ![i] = [st |-> c.st, handle |-> c.handle]]
            /\ engH' = IF ok THEN [engH EXCEPT ![h] = "live"] ELSE engH
            /\ last' = Result(op, h, NoTx, <<>>, NoOracle, Fail(r, c.ret, c.err))
    /\ UNCHANGED <<db, destroys, misuse, eng, req, runs, cfg>>

New(i) == Construct(i, "new")

TryNew(i) == Construct(i, "try_new")

Drop(i) ==
    /\ inst[i].st = "live"
    /\ LET r == drop(StartRun(eng[inst[i].handle]), inst[i].handle)
           b == Booked(r.calls)
       IN  /\ engH' = b.engH
           /\ destroys' = b.destroys
           /\ misuse' = b.misuse
           /\ last' = Result("drop", inst[i].handle, NoTx, <<>>, NoOracle, r)
    /\ inst' = [inst EXCEPT ![i].st = "dropped"]
    /\ UNCHANGED <<db, eng, req, runs, cfg>>

\* What an operation that ran as `r` on handle h leaves behind.
Ran(op, h, tx, slots, o, r, asked) ==
    LET b == Booked(r.calls)
    IN  /\ engH' = b.engH
        /\ destroys' = b.destroys
        /\ misuse' = b.misuse
        /\ eng' = IF h = NULL THEN eng ELSE [eng EXCEPT ![h] = r.eng]
        /\ req' = IF h = NULL THEN req ELSE [req EXCEPT ![h] = @ \cup asked]
        /\ last' = Result(op, h, tx, slots, o, r)
        /\ runs' = runs + 1
        /\ db' = r.db
        /\ UNCHANGED <<inst, cfg>>

Transacts(i, txs, oracles, limit) ==
    /\ inst[i].st = "live"
    /\ runs < limit
    /\ \E tx \in txs, o \in oracles :
        LET h == inst[i].handle
            r == transact(StartRun(eng[h]), o, h, tx)
        IN  Ran("transact", h, tx, common_slots, o, r, Window(ContractAddr(tx)) \cup Written(r, o))

\* The handles a caller of the bridge can pass: NULL, or a live one.
Passable == { NULL } \cup { inst[i].handle : i \in { j \in 1..MaxInst : inst[j].st = "live" } }
Pre(h) == StartRun(IF h = NULL THEN FreshEngine ELSE eng[h])
Target(address) == [NoTx EXCEPT !.to = address]

SyncAccounts(handles, oracles, limit) ==
    /\ runs < limit
    /\ \E h \in handles, address \in Addr, o \in oracles :
        Ran("sync_account_to_ffi", h, Target(address), <<>>, o,
            sync_account_to_ffi(Pre(h), o, h, address), {})

SyncStorages(handles, slots, oracles, limit) ==
    /\ runs < limit
    /\ \E h \in handles, address \in Addr, slot \in slots, o \in oracles :
        Ran("sync_storage_to_ffi", h, Target(address), <<slot>>, o,
            sync_storage_to_ffi(Pre(h), o, h, address, slot), { <<address, slot>> })

SyncStorageSlotss(handles, oracles, limit) ==
    /\ runs < limit
    /\ \E h \in handles, address \in Addr, slots \in SlotLists, o \in oracles :
        Ran("sync_storage_slots_to_ffi", h, Target(address), slots, o,
            sync_storage_slots_to_ffi(Pre(h), o, h, address, slots),
            { <<address, slots[j]>> : j \in 1..Len(slots) })

ReadStorages(handles, slots, oracles, limit) ==
    /\ runs < limit
    /\ \E h \in handles, address \in Addr, slot \in slots, o \in oracles :
        Ran("read_storage_from_ffi", h, Target(address), <<slot>>, o,
            read_storage_from_ffi(Pre(h), o, h, address, slot), {})

\* ---- the lifecycle specification: instances are created, used for up to
\* MaxRuns operations and dropped.
Transact(i) == Transacts(i, SeqTxs, SeqOracles, MaxRuns)

SyncStorage == SyncStorages(Passable \ {NULL}, {0, MaxSlot}, SeqOracles, MaxRuns)

Next ==
    \/ \E i \in 1..MaxInst : New(i) \/ TryNew(i) \/ Drop(i) \/ Transact(i)
    \/ SyncStorage

Spec == Init /\ [][Next]_vars

\* ---- the single-operation specification: one operation on a fresh engine,
\* failing at every place it can fail.
TransactOnce(i) == Transacts(i, Txs, RunOracles, 1)

SyncAccountOnce == SyncAccounts(Passable, SyncOracles, 1)

SyncStorageOnce == SyncStorages(Passable, Slot, SyncOracles, 1)

SyncStorageSlotsOnce == SyncStorageSlotss(Passable, SyncOracles, 1)

ReadStorageOnce == ReadStorages(Passable, {0, MaxSlot}, SyncOracles, 1)

NextRun ==
    \/ \E i \in 1..MaxInst : New(i) \/ TryNew(i) \/ Drop(i) \/ TransactOnce(i)
    \/ SyncAccountOnce
    \/ SyncStorageOnce
    \/ SyncStorageSlotsOnce
    \/ ReadStorageOnce

SpecRun == Init /\ [][NextRun]_vars

\* ---- the extraction specification: one transact whose setup succeeds, over
\* every report of the engine.
ExtractTxs == { tx \in Txs : tx.kind = "Call" /\ tx.to = 1 /\ tx.caller = 0 /\ tx.data = <<>> }

InitExtract == Init /\ db.acc[1].code.some

TransactExtract(i) == Transacts(i, ExtractTxs, ExtractOracles, 1)

NextExtract ==
    \E i \in 1..MaxInst : New(i) \/ Drop(i) \/ TransactExtract(i)

SpecExtract == InitExtract /\ [][NextExtract]_vars

\* ---- the gas specification: one transact on a fresh instance, with gas
\* limits over the range of u64: 0, the limit of the tests, 2^63 - 1, 2^63
\* and 2^64 - 1.
GasLimits ==
    { << 0, 0, 0, 0 >>, DefaultGasLimit, << 32767, 65535, 65535, 65535 >>,
      << 32768, 0, 0, 0 >>, << 65535, 65535, 65535, 65535 >> }
GasTxs == { [tx EXCEPT !.gas_limit = g] : tx \in ExtractTxs, g \in GasLimits }

TransactGas(i) == Transacts(i, GasTxs, SeqOracles, 1)

NextGas == \E i \in 1..MaxInst : New(i) \/ TransactGas(i)

SpecGas == Init /\ [][NextGas]_vars

\* ---- the log specification: one transact whose execution reports logs with
\* 0 to 4 topics and with data around the capacity of data_buf.
LogData(len) == [j \in 1..len |-> 1 + (j % 250)]
LogShapes == { << 0, 0 >>, << 4, 1 >>, << 1, DataBufLen >>, << 2, DataBufLen + 1 >> }
BigLogEntries ==
    { [ok |-> ok, address |-> 1, topics |-> [t \in 1..s[1] |-> 6 + t], data |-> LogData(s[2])] :
        s \in LogShapes, ok \in BOOLEAN }
LogOracles ==
    { Oracle("none", 0, "", rep) :
        rep \in ReportSet({3}, {0}, {<<>>}, SeqsUpTo(BigLogEntries, MaxLogs), {<<>>}) }

TransactLogs(i) == Transacts(i, ExtractTxs, LogOracles, 1)

NextLogs == \E i \in 1..MaxInst : New(i) \/ TransactLogs(i)

SpecLogs == InitExtract /\ [][NextLogs]_vars

\* ---- the twin specification: two fresh instances, each with its own engine
\* handle, run the same transaction on the same ledger; the engine, given the
\* same inputs, answers both alike (the same oracle).
TwinTransact ==
    /\ runs = 0
    /\ \E tx \in Txs, o \in RunOracles :
        LET first == new(1)
            second == new(1 + first.handle)
            a == transact(StartRun(FreshEngine), o, first.handle, tx)
            b == transact(StartRun(FreshEngine), o, second.handle, tx)
        IN  last' = [op |-> "twin", tx |-> tx, o |-> o,
                     a |-> Result("transact", first.handle, tx, common_slots, o, a),
                     b |-> Result("transact", second.handle, tx, common_slots, o, b),
                     aeng |-> a.eng, beng |-> b.eng]
    /\ runs' = runs + 1
    /\ UNCHANGED <<db, inst, engH, destroys, misuse, eng, req, cfg>>

NextTwin == TwinTransact

SpecTwin == Init /\ [][NextTwin]_vars

\* ---- the hardfork specification: an instance is constructed from a context
\* with any SpecId; evm_create receives the hardfork name and log level 0.
ForkConstruct(i, op) ==
    /\ inst[i].st = "none"
    /\ \E spec \in SpecIds, ok \in BOOLEAN :
        LET hardfork_name == IF op = "new" THEN new_hardfork_name(spec)
                             ELSE try_new_hardfork_name(spec)
            h == Created(ok)
            c == IF op = "new" THEN new(h) ELSE try_new(h)
        IN  /\ inst' = [inst EXCEPT ![i] = [st |-> c.st, handle |-> c.handle]]
            /\ engH' = IF ok THEN [engH EXCEPT ![h] = "live"] ELSE engH
            /\ last' = [op |-> op, spec |-> spec,
                        calls |-> << [fn |-> "evm_create", name |-> hardfork_name,
                                      log_level |-> 0, h |-> h] >>,
                        ret |-> c.ret, err |-> c.err]
    /\ UNCHANGED <<db, destroys, misuse, eng, req, runs, cfg>>

ForkNew(i) == ForkConstruct(i, "new")

ForkTryNew(i) == ForkConstruct(i, "try_new")

NextFork == \E i \in 1..MaxInst : ForkNew(i) \/ ForkTryNew(i) \/ Drop(i)

SpecFork == Init /\ [][NextFork]_vars

\* ---- the thread specification: threads that share the instances (the type
\* is Send and Sync, evm.rs:485-487) start operations on them; an operation
\* is a sequence of steps, one for entering and one for leaving each ledger
\* lookup and engine call of its trace, and threads interleave step by step.
MaxThreads == 2
Threads == 1..MaxThreads

\* A thread's position: the operation it runs, the instance it runs it on,
\* how many calls of the trace are complete, and whether it is inside the next.
Position(op, i, pc, at, r) == [op |-> op, i |-> i, pc |-> pc, at |-> at, r |-> r]
Idle == Position("none", 0, "idle", 0, StartRun(FreshEngine))

\* Faulty variant: transact takes a shared reference.
transact_receiver_shared(held) == TRUE

\* transact(&mut self, ..) (evm.rs:222): the caller holds the exclusive borrow
\* of the instance, so no other borrow of it is live when the call begins.
transact_receiver(held) == held = {}

\* drop(&mut self) (evm.rs:478) runs when the owner gives the value up, which
\* no live borrow allows.
drop_receiver(held) == held = {}

ThreadTxs == ExtractTxs
ThreadOracles == { o \in SeqOracles : o.kind = "none" \/ o.at = 2 }

InitThreads ==
    /\ db \in Ledgers
    /\ inst = [i \in 1..MaxInst |-> [st |-> new(i).st, handle |-> new(i).handle]]
    /\ engH = [h \in Handle |-> "live"]
    /\ destroys = [h \in Handle |-> 0]
    /\ misuse = FALSE
    /\ eng = [h \in Handle |-> FreshEngine]
    /\ req = [h \in Handle |-> {}]
    /\ last = [op |-> "threads", held |-> [i \in 1..MaxInst |-> {}],
               th |-> [t \in Threads |-> Idle]]
    /\ runs = 0
    /\ cfg = CfgInit

\* A thread calls transact on an instance.
ThreadTransact(t, i) ==
    /\ last.th[t].pc = "idle"
    /\ inst[i].st = "live"
    /\ runs < MaxRuns
    /\ transact_receiver(last.held[i])
    /\ \E tx \in ThreadTxs, o \in ThreadOracles :
        LET h == inst[i].handle
            r == transact(StartRun(eng[h]), o, h, tx)
        IN  last' = [last EXCEPT !.held[i] = @ \cup {t},
                                 !.th[t] = Position("transact", i, "between", 0, r)]
    /\ UNCHANGED <<db, inst, engH, destroys, misuse, eng, req, runs, cfg>>

\* A thread that owns an instance drops it.
ThreadDrop(t, i) ==
    /\ last.th[t].pc = "idle"
    /\ inst[i].st = "live"
    /\ drop_receiver(last.held[i])
    /\ LET h == inst[i].handle
           r == drop(StartRun(eng[h]), h)
       IN  last' = [last EXCEPT !.held[i] = @ \cup {t},
                                !.th[t] = Position("drop", i, "between", 0, r)]
    /\ inst' = [inst EXCEPT ![i].st = "dropped"]
    /\ UNCHANGED <<db, engH, destroys, misuse, eng, req, runs, cfg>>

\* The thread enters the next call of its operation.
ThreadEnter(t) ==
    /\ last.th[t].pc = "between"
    /\ last.th[t].at < Len(last.th[t].r.calls)
    /\ last' = [last EXCEPT !.th[t].pc = "in_call"]
    /\ UNCHANGED <<db, inst, engH, destroys, misuse, eng, req, runs, cfg>>

\* The call returns to the thread that made it.
ThreadLeave(t) ==
    /\ last.th[t].pc = "in_call"
    /\ LET b == Booked(<< last.th[t].r.calls[last.th[t].at + 1] >>)
       IN  /\ engH' = b.engH
           /\ destroys' = b.destroys
           /\ misuse' = b.misuse
    /\ last' = [last EXCEPT !.th[t].pc = "between", !.th[t].at = @ + 1]
    /\ UNCHANGED <<db, inst, eng, req, runs, cfg>>

\* The operation returns: the borrow ends.
ThreadReturn(t) ==
    /\ last.th[t].pc = "between"
    /\ last.th[t].at = Len(last.th[t].r.calls)
    /\ LET p == last.th[t]
           h == inst[p.i].handle
       IN  /\ eng' = [eng EXCEPT ![h] = p.r.eng]
           /\ db' = p.r.db
           /\ runs' = IF p.op = "transact" THEN runs + 1 ELSE runs
           /\ last' = [last EXCEPT !.held[p.i] = @ \ {t}, !.th[t] = Idle]
    /\ UNCHANGED <<inst, engH, destroys, misuse, req, cfg>>

NextThreads ==
    \/ \E t \in Threads, i \in 1..MaxInst : ThreadTransact(t, i) \/ ThreadDrop(t, i)
    \/ \E t \in Threads : ThreadEnter(t) \/ ThreadLeave(t) \/ ThreadReturn(t)

SpecThreads == InitThreads /\ [][NextThreads]_vars

\* ---- the configuration specification: a builder is created, configured,
\* built, handed over or dropped.
\* The state after an operation that left builder b and config c and made `calls`.
CfgAfter(op, b, c, raw, calls, ret) ==
    LET k == CfgBook(calls, 1, [cfg EXCEPT !.raw = raw])
    IN  [k EXCEPT !.b = b, !.c = c, !.op = op, !.calls = calls, !.ret = ret, !.tramp = NoTramp,
                  !.targs = NoArgs]

NextBox == 1 + Cardinality({ id \in 1..MaxOverrides : cfg.box[id] # "unalloc" })

CfgStep(op, x, raw) ==
    /\ cfg' = CfgAfter(op, x.b, x.c, raw, x.calls, x.ret)
    /\ UNCHANGED <<db, inst, engH, destroys, misuse, eng, req, last, runs>>

CfgNew ==
    /\ cfg.b.st = "none"
    /\ \E ok \in BOOLEAN : CfgStep("new", EvmConfigBuilder_new(IF ok THEN 1 ELSE NULL), cfg.raw)

CfgSet ==
    /\ cfg.b.st = "live"
    /\ \E fn \in Setters : CfgStep(fn, [setter(cfg.b, fn) EXCEPT !.c = cfg.c], cfg.raw)

CfgOverrideOpcode ==
    /\ cfg.b.st = "live"
    /\ NextBox <= MaxOverrides
    /\ \E ok \in BOOLEAN : CfgStep("override_opcode", override_opcode(cfg.b, NextBox, ok), cfg.raw)

CfgOverridePrecompile ==
    /\ cfg.b.st = "live"
    /\ NextBox <= MaxOverrides
    /\ \E ok \in BOOLEAN :
        CfgStep("override_precompile", override_precompile(cfg.b, NextBox, ok), cfg.raw)

CfgBuild ==
    /\ cfg.b.st = "live"
    /\ CfgStep("build", build(cfg.b), cfg.raw)

CfgDropBuilder ==
    /\ cfg.b.st = "live"
    /\ CfgStep("drop_builder",
               [b |-> [NoValue EXCEPT !.st = "gone"], c |-> cfg.c,
                calls |-> EvmConfigBuilder_drop(cfg.b), ret |-> "Ok"], cfg.raw)

CfgIntoRaw ==
    /\ cfg.c.st = "live"
    /\ LET x == into_raw(cfg.c)
       IN  CfgStep("into_raw", [b |-> cfg.b, c |-> x.c, calls |-> x.calls, ret |-> "Ok"], x.raw)

CfgDropConfig ==
    /\ cfg.c.st = "live"
    /\ CfgStep("drop_config",
               [b |-> cfg.b, c |-> [NoValue EXCEPT !.st = "gone"],
                calls |-> EvmConfig_drop(cfg.c), ret |-> "Ok"], cfg.raw)

\* with_config consumes a built config; when the engine answers null it may
\* or may not have released the configuration it was handed (config_freed).
CfgWithConfig ==
    /\ cfg.c.st = "live"
    /\ cfg.evm.st = "none"
    /\ \E handle \in { NULL, 1 }, released \in BOOLEAN :
        /\ handle # NULL => ~released
        /\ LET x == with_config(cfg.c, handle)
               calls == x.calls \o (IF released THEN << CEv("config_freed", x.raw, 0, TRUE) >>
                                               ELSE << >>)
           IN  cfg' = [CfgAfter("with_config", cfg.b, x.c, x.raw, calls, x.ret)
                          EXCEPT !.evm = x.evm]
    /\ UNCHANGED <<db, inst, engH, destroys, misuse, eng, req, last, runs>>

\* The instance with_config returned goes out of scope.
CfgDropEvm ==
    /\ cfg.evm.st = "live"
    /\ LET r == drop(StartRun(FreshEngine), cfg.evm.handle)
           calls == [j \in DOMAIN r.calls |-> CEv(r.calls[j].fn, r.calls[j].h, 0, r.calls[j].ok)]
       IN  cfg' = [CfgAfter("drop_evm", cfg.b, cfg.c, cfg.raw, calls, "Ok")
                      EXCEPT !.evm = [NoEvm EXCEPT !.st = "gone"]]
    /\ UNCHANGED <<db, inst, engH, destroys, misuse, eng, req, last, runs>>

\* The tokens a trampoline can be entered with: null, or a box the engine
\* accepted through `registration`, while the configuration it was registered
\* on is alive (in the adapter's hands or inside an engine).
Tokens(registration) ==
    { NULL } \cup { id \in 1..MaxOverrides : cfg.regfn[id] = registration /\ cfg.hst = "live" }

CfgInvokeOpcode ==
    /\ \E ctx \in Tokens("evm_config_add_opcode_override"), answer \in BOOLEAN :
        LET t == opcode_trampoline(ctx, 0, 1, answer)
        IN  cfg' = [CfgAfter(t.fn, cfg.b, cfg.c, cfg.raw, t.calls, "Ok") EXCEPT !.tramp = t]
    /\ UNCHANGED <<db, inst, engH, destroys, misuse, eng, req, last, runs>>

\* What the handlers return in the model, the pointers the engine passes (a
\* pointer may have more bytes behind it than the length it is paired with)
\* and the addresses.
PrecompileResults ==
    { Ok(Vec(<< >>, 0), 3), Ok(Vec(<< 7, 8 >>, 2), 3), Ok(Vec(<< 7, 8 >>, 4), 0) }
    \cup { Err(e) : e \in PrecompileErrors }
Inputs ==
    { << NullPtr, 0 >>, << NullPtr, 1 >>, << Ptr(<< 9, 4 >>), 0 >>, << Ptr(<< 9, 4 >>), 1 >>,
      << Ptr(<< 9, 4 >>), 2 >> }
Addresses == { NullPtr, Ptr(address_to_bytes(1) \o << 6 >>) }
PrecompileCalls ==
    (Addresses \X Inputs \X { Ok(Vec(<< 7, 8 >>, 4), 0) })
    \cup ({ Ptr(address_to_bytes(1) \o << 6 >>) } \X { << Ptr(<< 9, 4 >>), 1 >> } \X PrecompileResults)

CfgInvokePrecompile ==
    /\ \E ctx \in Tokens("evm_config_add_precompile_override"), call \in PrecompileCalls :
        LET address == call[1]
            input == call[2][1]
            input_len == call[2][2]
            result == call[3]
            t == precompile_trampoline(ctx, address, input, input_len, 5, result)
        IN  cfg' = [CfgAfter(t.fn, cfg.b, cfg.c, cfg.raw, t.calls, "Ok")
                       EXCEPT !.tramp = t,
                              !.targs = [address |-> address, input |-> input,
                                         input_len |-> input_len, gas_limit |-> 5,
                                         result |-> result]]
    /\ UNCHANGED <<db, inst, engH, destroys, misuse, eng, req, last, runs>>

NextConfig ==
    \/ CfgNew
    \/ CfgSet
    \/ CfgOverrideOpcode
    \/ CfgOverridePrecompile
    \/ CfgBuild
    \/ CfgDropBuilder
    \/ CfgIntoRaw
    \/ CfgDropConfig
    \/ CfgWithConfig
    \/ CfgDropEvm
    \/ CfgInvokeOpcode
    \/ CfgInvokePrecompile

SpecConfig == Init /\ [][NextConfig]_vars

\* ---- the conversion specification: one value is taken from the inputs and
\* converted to the wire and back.
\* 256-bit values and addresses with one digit standing out of a uniform
\* background: zero, one, the maximum, and a single digit at every position.
Patterns(len) ==
    { [j \in 1..len |-> IF j = p THEN d ELSE bg] : p \in 1..len, d \in { 0, 1, 255 }, bg \in { 0, 255 } }
SmallValues == { 0, 1, 255, 256, 65535, 65536, 16777216, 2147483647 }
ConvInput(kind, u256, address, number) ==
    [op |-> "input", kind |-> kind, u256 |-> u256, address |-> address, number |-> number]
ConvInputs ==
    LET u0 == [j \in 1..WordLen |-> 0]
        a0 == Address_from([j \in 1..AddrLen |-> 0])
    IN  { ConvInput("u256", v, a0, 0) : v \in Patterns(WordLen) }
        \cup { ConvInput("address", u0, Address_from(b), 0) : b \in Patterns(AddrLen) }
        \cup { ConvInput("number", u0, a0, n) : n \in SmallValues }

InitConv ==
    /\ db = CHOOSE l \in Ledgers : TRUE
    /\ inst = [i \in 1..MaxInst |-> [st |-> "none", handle |-> NULL]]
    /\ engH = [h \in Handle |-> "unborn"]
    /\ destroys = [h \in Handle |-> 0]
    /\ misuse = FALSE
    /\ eng = [h \in Handle |-> FreshEngine]
    /\ req = [h \in Handle |-> {}]
    /\ last \in ConvInputs
    /\ runs = 0
    /\ cfg = CfgInit

\* The values go through the conversions of their types and back.
Converted(in) ==
    LET u256_bytes == U256_to_be_bytes(in.u256)
        address_bytes == Address_to_bytes(in.address)
        bytes == u256_to_be_bytes(in.number)
        abytes == address_to_bytes(in.number)
    IN  [op |-> "convert", kind |-> in.kind,
         u256 |-> in.u256, u256_bytes |-> u256_bytes, u256_back |-> U256_from_be_bytes(u256_bytes),
         address |-> in.address, address_bytes |-> address_bytes,
         address_back |-> Address_from(address_bytes),
         number |-> in.number, bytes |-> bytes, back |-> u256_from_be_bytes(bytes),
         abytes |-> abytes, aback |-> address_from_bytes(abytes)]

Convert ==
    /\ last.op = "input"
    /\ last' = Converted(last)
    /\ UNCHANGED <<db, inst, engH, destroys, misuse, eng, req, runs, cfg>>

NextConv == Convert

SpecConv == InitConv /\ [][NextConv]_vars

\* ------------------------------------------------------------ properties
LedgerFns == { "db.basic", "db.storage" }
AccountSetters == { "evm_set_balance", "evm_set_nonce", "evm_set_code" }
FallibleSetters ==
    AccountSetters \cup { "evm_set_storage", "evm_set_bytecode", "evm_set_execution_context" }
Getters ==
    { "evm_get_gas_used", "evm_is_success", "evm_get_output_len", "evm_get_output",
      "evm_get_gas_refund", "evm_get_log_count", "evm_get_log",
      "evm_get_storage_change_count", "evm_get_storage_change" }

\* The positions of the last operation's trace that hold a call of `fns`.
At(fns) == { j \in DOMAIN last.calls : last.calls[j].fn \in fns }
\* The number of calls of `fns` among the first j of the trace.
CountTo(fns, j) == Cardinality({ i \in At(fns) : i <= j })
ExecuteOk == \E j \in At({"evm_execute"}) : last.calls[j].ok
Operations ==
    { "transact", "sync_account_to_ffi", "sync_storage_to_ffi", "sync_storage_slots_to_ffi" }

\* C1: every engine handle a constructor obtained belongs to one instance; it
\* is live with no destroy while the instance lives, whatever the transact
\* calls on it returned, and has exactly one evm_destroy once the instance is
\* dropped; no engine call is ever made on a handle that is not live.
C1_DestroyedExactlyOnce ==
    /\ ~misuse
    /\ \A h \in Handle :
        /\ destroys[h] <= 1
        /\ engH[h] # "unborn" =>
            \E i \in 1..MaxInst : inst[i].handle = h /\ inst[i].st \in {"live", "dropped"}
    /\ \A i \in 1..MaxInst :
        /\ inst[i].st = "live" =>
            engH[inst[i].handle] = "live" /\ destroys[inst[i].handle] = 0
        /\ inst[i].st = "dropped" =>
            engH[inst[i].handle] = "destroyed" /\ destroys[inst[i].handle] = 1

\* An instance used for MaxRuns operations has been dropped and its handle
\* destroyed once.
C1_Witness ==
    \E i \in 1..MaxInst :
        /\ inst[i].st = "dropped"
        /\ runs = MaxRuns
        /\ last.op = "drop"
        /\ destroys[inst[i].handle] = 1

\* C2: evm_config_destroy is invoked at most once on the configuration
\* handle, and never once into_raw has handed the handle away.
C2_ConfigDestroyedAtMostOnce ==
    /\ cfg.destroys <= 1
    /\ ~cfg.late

\* A builder with a registered override was built (and its remains dropped),
\* and into_raw handed the handle away without a destroy.
C2_Witness ==
    /\ cfg.op = "into_raw"
    /\ cfg.raw # NULL
    /\ cfg.b.st = "gone"
    /\ cfg.destroys = 0
    /\ \E id \in 1..MaxOverrides : cfg.box[id] = "alloc"

\* C3: transact returns the "did not complete" error exactly when evm_execute
\* reported false; when evm_execute reported true it returns Ok, with
\* Success if evm_is_success answered true and Revert if it answered false.
C3_ErrorIffExecuteFalse ==
    last.op = "transact" =>
        /\ (last.ret = "Ffi" /\ last.err = ExecuteFailed)
            <=> (\E j \in At({"evm_execute"}) : ~last.calls[j].ok)
        /\ ExecuteOk =>
            /\ last.ret = "Ok"
            /\ At({"evm_is_success"}) # {}
            /\ \A j \in At({"evm_is_success"}) :
                last.out.result.tag = IF last.calls[j].ok THEN "Success" ELSE "Revert"

\* A completed execution whose status is "reverted" was returned as Ok(Revert).
C3_Witness ==
    /\ last.op = "transact"
    /\ ExecuteOk
    /\ last.ret = "Ok"
    /\ last.out.result.tag = "Revert"

\* C4: a fallible pre-execution setter that reports failure is the last call
\* of the transact run, and the run returns the Ffi error naming that setter.
C4_SetterFailureStops ==
    last.op = "transact" =>
        \A j \in At(FallibleSetters) :
            ~last.calls[j].ok =>
                /\ j = Len(last.calls)
                /\ last.ret = "Ffi"
                /\ last.err = last.calls[j].fn

\* A transact run in which evm_set_nonce failed after evm_set_balance succeeded.
C4_Witness ==
    /\ last.op = "transact"
    /\ \E j \in At({"evm_set_nonce"}) : ~last.calls[j].ok /\ j > 1
    /\ last.ret = "Ffi"

\* The phase of an engine call within transact.
Phase(fn) ==
    IF fn \in AccountSetters THEN 1
    ELSE IF fn = "evm_set_storage" THEN 2
    ELSE IF fn = "evm_set_bytecode" THEN 3
    ELSE IF fn = "evm_set_execution_context" THEN 4
    ELSE IF fn = "evm_set_blockchain_context" THEN 5
    ELSE IF fn = "evm_execute" THEN 6
    ELSE 7

\* The engine calls a successful sync of account `a` makes.
SettersOf(a) ==
    IF ~db.acc[a].some THEN {}
    ELSE IF db.acc[a].code.some THEN AccountSetters
    ELSE AccountSetters \ {"evm_set_code"}

\* C5: the engine calls of a transact run come in phases: account setters
\* (the caller's, then the target's), storage setters over the target's
\* window, bytecode, execution context, blockchain context, execute, getters;
\* evm_execute comes after every setter was made and succeeded, and a getter
\* only after evm_execute returned true.
C5_CallOrder ==
    last.op = "transact" =>
        LET calls == last.calls
            eng_calls == DOMAIN calls \ At(LedgerFns)
            caller == last.tx.caller
            target == ContractAddr(last.tx)
            \* the ledger lookup for the code of a Call comes before both syncs
            skip == IF last.tx.kind = "Call" THEN 1 ELSE 0
        IN  /\ \A i, j \in eng_calls : i < j => Phase(calls[i].fn) <= Phase(calls[j].fn)
            /\ \A j \in At(AccountSetters) :
                \/ CountTo({"db.basic"}, j) = skip + 1 /\ calls[j].a = caller
                \/ CountTo({"db.basic"}, j) = skip + 2 /\ calls[j].a = target
            /\ \A j \in At({"evm_set_storage"}) :
                /\ calls[j].a = target
                /\ calls[j].s = CountTo({"evm_set_storage"}, j) - 1
                /\ <<calls[j].a, calls[j].s>> \in Window(target)
            /\ \A j \in At({"evm_execute"}) :
                /\ \A i \in 1..(j - 1) : calls[i].ok
                /\ \A a \in {caller, target} : \A fn \in SettersOf(a) :
                    \E i \in At({fn}) : i < j /\ calls[i].a = a
                /\ CountTo({"evm_set_storage"}, j) = Cardinality(Window(target))
                /\ \A fn \in { "evm_set_bytecode", "evm_set_execution_context",
                               "evm_set_blockchain_context" } : CountTo({fn}, j) = 1
            /\ \A j \in At(Getters) :
                \E i \in At({"evm_execute"}) : i < j /\ calls[i].ok

\* A Call between two different existing accounts ran to the storage changes.
C5_Witness ==
    /\ last.op = "transact"
    /\ last.tx.kind = "Call"
    /\ last.tx.caller # last.tx.to
    /\ db.acc[last.tx.caller].some
    /\ db.acc[last.tx.to].some
    /\ At({"evm_get_storage_change"}) # {}

\* The logs of a report whose enumeration succeeds, in index order.
OkLogs(rep) ==
    LET sel == SelectSeq(rep.logs, LAMBDA e : e.ok)
    IN  [j \in 1..Len(sel) |->
            [address |-> sel[j].address, topics |-> sel[j].topics, data |-> sel[j].data]]

\* C6: after a completed execution, Success carries the engine's gas used,
\* refund counter, enumerated logs and output; Revert carries gas used and
\* output and has no log and no refund field, whatever the engine reported.
C6_OutcomeFields ==
    (last.op = "transact" /\ ExecuteOk) =>
        LET rep == last.o.rep
            res == last.out.result
        IN  /\ rep.gas >= 0 => res.gas_used = rep.gas
            /\ res.output = rep.output
            /\ rep.success =>
                /\ res.tag = "Success"
                /\ res.gas_refunded = rep.refund
                /\ res.logs = OkLogs(rep)
            /\ ~rep.success =>
                /\ res.tag = "Revert"
                /\ DOMAIN res = {"tag", "gas_used", "output"}

\* A Revert was assembled although the engine reported a log and a refund.
C6_Witness ==
    /\ last.op = "transact"
    /\ ExecuteOk
    /\ last.out.result.tag = "Revert"
    /\ last.o.rep.refund > 0
    /\ OkLogs(last.o.rep) # <<>>
    /\ last.o.rep.gas > 0

\* The indices of a report's storage-change entries whose enumeration succeeds.
OkChanges(rep) == { j \in DOMAIN rep.changes : rep.changes[j].ok }

\* C7: after a completed execution (Success or Revert) transact returns Ok
\* and the state holds one Touched account per address of the successfully
\* enumerated storage changes, whose storage holds exactly the reported
\* slots of the address, each with a reported value; every index is
\* enumerated, a failed one is skipped.
C7_StateFromChanges ==
    (last.op = "transact" /\ ExecuteOk) =>
        LET rep == last.o.rep
            state == last.out.state
            of(a) == { j \in OkChanges(rep) : rep.changes[j].address = a }
        IN  /\ last.ret = "Ok"
            /\ DOMAIN state = { rep.changes[j].address : j \in OkChanges(rep) }
            /\ \A a \in DOMAIN state :
                /\ state[a].status = "Touched"
                /\ DOMAIN state[a].storage = { rep.changes[j].slot : j \in of(a) }
                /\ \A s \in DOMAIN state[a].storage :
                    \E j \in of(a) :
                        /\ rep.changes[j].slot = s
                        /\ rep.changes[j].value = state[a].storage[s].present_value
            /\ \A i \in 0..(Len(rep.changes) - 1) :
                \E j \in At({"evm_get_storage_change"}) : last.calls[j].s = i

\* A Revert whose first change failed to enumerate and whose second did not.
C7_Witness ==
    /\ last.op = "transact"
    /\ last.ret = "Ok"
    /\ last.out.result.tag = "Revert"
    /\ Len(last.o.rep.changes) = 2
    /\ ~last.o.rep.changes[1].ok
    /\ last.o.rep.changes[2].ok
    /\ DOMAIN last.out.state = { last.o.rep.changes[2].address }

\* C8: the logs of a Success are the engine's log entries whose evm_get_log
\* succeeded, in index order; every index 0..log_count-1 is asked for, and a
\* failed one does not make transact fail.
C8_LogsInOrder ==
    (last.op = "transact" /\ ExecuteOk /\ last.o.rep.success) =>
        /\ last.ret = "Ok"
        /\ last.out.result.tag = "Success"
        /\ last.out.result.logs = OkLogs(last.o.rep)
        /\ \A i \in 0..(Len(last.o.rep.logs) - 1) :
            \E j \in At({"evm_get_log"}) : last.calls[j].s = i

\* A Success whose first log failed to enumerate and whose second is carried.
C8_Witness ==
    /\ last.op = "transact"
    /\ last.ret = "Ok"
    /\ last.out.result.tag = "Success"
    /\ Len(last.o.rep.logs) = 2
    /\ ~last.o.rep.logs[1].ok
    /\ Len(last.out.result.logs) = 1

\* C9: in the engine, a slot that no operation was asked to pre-sync and no
\* execution wrote holds zero, whatever the ledger holds for it.
C9_UnsyncedReadsZero ==
    \A h \in Handle : \A p \in Addr \X Slot :
        p \notin req[h] => eng[h].sto[p] = ZERO

\* A transact completed on a contract for which the ledger holds a value in
\* a slot outside the window, which the engine sees as zero.
C9_Witness ==
    /\ last.op = "transact"
    /\ last.ret = "Ok"
    /\ \E s \in Slot :
        LET p == <<ContractAddr(last.tx), s>>
        IN  /\ p \notin req[last.h]
            /\ db.sto[p] # ZERO
            /\ eng[last.h].sto[p] = ZERO

\* C10: a ledger lookup that fails is the last call of the operation (no
\* setter for the item, no later engine call), and the operation returns the
\* ledger's error as Db(error).
C10_LedgerErrorReturned ==
    last.op \in Operations =>
        /\ \A j \in At(LedgerFns) :
            ~last.calls[j].ok =>
                /\ j = Len(last.calls)
                /\ last.ret = "Db"
                /\ last.err = last.o.err
        /\ last.ret = "Db" =>
            last.calls # <<>> /\ last.calls[Len(last.calls)].fn \in LedgerFns

\* A storage lookup failed after earlier slots had been pushed into the engine.
C10_Witness ==
    /\ last.op \in {"transact", "sync_storage_slots_to_ffi"}
    /\ last.ret = "Db"
    /\ last.err = "DbErrB"
    /\ last.calls[Len(last.calls)].fn = "db.storage"
    /\ At({"evm_set_storage"}) # {}

\* The ledger answered the lookup of the last sync_account_to_ffi with "absent".
AbsentSynced ==
    /\ last.op = "sync_account_to_ffi"
    /\ ~db.acc[last.tx.to].some
    /\ \E j \in At({"db.basic"}) : last.calls[j].ok

\* C11: a sync_account_to_ffi whose ledger lookup answers "absent" makes no
\* engine call, leaves the engine as it was and returns Ok.
C11_AbsentAccountNoop ==
    [][(runs' = runs + 1 /\ AbsentSynced') =>
            /\ eng' = eng
            /\ DOMAIN last'.calls \ At(LedgerFns)' = {}
            /\ last'.ret = "Ok"]_vars

\* An absent account was synced on a live handle.
C11_Witness ==
    /\ AbsentSynced
    /\ last.h # NULL
    /\ last.ret = "Ok"

\* The ledger answered the lookup of the last sync_account_to_ffi with an account.
PresentSynced ==
    /\ last.op = "sync_account_to_ffi"
    /\ db.acc[last.tx.to].some
    /\ \E j \in At({"db.basic"}) : last.calls[j].ok

\* The setter calls a complete sync of address a makes, in order: function,
\* word argument and byte argument.
SetterPlan(a) ==
    << <<"evm_set_balance", db.acc[a].balance, <<>> >>,
       <<"evm_set_nonce", db.acc[a].nonce, <<>> >> >>
    \o (IF db.acc[a].code.some THEN << <<"evm_set_code", 0, db.acc[a].code.bytes>> >> ELSE << >>)

\* C12: for a present account the engine calls of sync_account_to_ffi are a
\* prefix of balance, nonce, code-if-any, each for the address and with the
\* ledger's value; the prefix is complete and the result Ok unless a setter
\* failed, in which case that setter is the last call and named by the Ffi
\* error; what the successful setters wrote stays in the engine.
C12_AccountSetterSequence ==
    PresentSynced =>
        LET a == last.tx.to
            plan == SetterPlan(a)
            made == SelectSeq(last.calls, LAMBDA c : c.fn \notin LedgerFns)
            done(fn) == \E j \in DOMAIN made : made[j].fn = fn /\ made[j].ok
        IN  /\ Len(made) <= Len(plan)
            /\ \A j \in DOMAIN made :
                /\ made[j].fn = plan[j][1]
                /\ made[j].h = last.h
                /\ made[j].a = a
                /\ made[j].v = plan[j][2]
                /\ made[j].b = plan[j][3]
                /\ ~made[j].ok =>
                    j = Len(made) /\ last.ret = "Ffi" /\ last.err = made[j].fn
            /\ (\A j \in DOMAIN made : made[j].ok) =>
                Len(made) = Len(plan) /\ last.ret = "Ok"
            /\ done("evm_set_balance") => eng[last.h].bal[a] = db.acc[a].balance
            /\ done("evm_set_nonce") => eng[last.h].nonce[a] = db.acc[a].nonce
            /\ done("evm_set_code") => eng[last.h].code[a] = db.acc[a].code.bytes

\* evm_set_nonce failed after a non-zero balance had been pushed, which stays.
C12_Witness ==
    /\ PresentSynced
    /\ last.ret = "Ffi"
    /\ last.err = "evm_set_nonce"
    /\ eng[last.h].bal[last.tx.to] # 0

\* C13: the trace of sync_storage_slots_to_ffi is a prefix of "look up
\* slots[1], push it, look up slots[2], push it, ..."; it is complete and the
\* result Ok unless a lookup or a push failed, which is then the last call and
\* the error returned; every slot pushed before it holds the ledger's value
\* in the engine.
C13_SlotsInOrderStopAtFailure ==
    (last.op = "sync_storage_slots_to_ffi" /\ last.h # NULL) =>
        LET a == last.tx.to
            slots == last.slots
            calls == last.calls
            pos(j) == (j + 1) \div 2
        IN  /\ Len(calls) <= 2 * Len(slots)
            /\ \A j \in DOMAIN calls :
                /\ calls[j].a = a
                /\ calls[j].s = slots[pos(j)]
                /\ calls[j].fn = IF j % 2 = 1 THEN "db.storage" ELSE "evm_set_storage"
                /\ j % 2 = 0 => calls[j].h = last.h /\ calls[j].v = db.sto[<<a, slots[pos(j)]>>]
                /\ ~calls[j].ok =>
                    /\ j = Len(calls)
                    /\ IF j % 2 = 1 THEN last.ret = "Db" /\ last.err = last.o.err
                       ELSE last.ret = "Ffi" /\ last.err = "evm_set_storage"
                /\ (calls[j].ok /\ j % 2 = 0) =>
                    eng[last.h].sto[<<a, slots[pos(j)]>>] = db.sto[<<a, slots[pos(j)]>>]
            /\ (\A j \in DOMAIN calls : calls[j].ok) =>
                Len(calls) = 2 * Len(slots) /\ last.ret = "Ok"

\* The lookup of the third of three slots failed: the second, non-zero in the
\* ledger, is in the engine, and the third, also non-zero, was not pushed.
C13_Witness ==
    /\ last.op = "sync_storage_slots_to_ffi"
    /\ Len(last.slots) = 3
    /\ Len(last.calls) = 5
    /\ last.ret = "Db"
    /\ eng[last.h].sto[<<last.tx.to, last.slots[2]>>] # 0
    /\ db.sto[<<last.tx.to, last.slots[3]>>] # 0
    /\ eng[last.h].sto[<<last.tx.to, last.slots[3]>>] = 0

\* C14: try_new returns Ffi("evm_create") exactly when evm_create returned
\* null, and then leaves no instance; otherwise it returns Ok and an instance
\* owns the returned handle. No instance holds a null handle, and no engine
\* call other than evm_create's own return ever carries one.
C14_TryNewNullHandle ==
    /\ last.op = "try_new" =>
        LET created == last.calls[1].h
        IN  /\ (last.ret = "Ffi" /\ last.err = "evm_create") <=> created = NULL
            /\ created = NULL =>
                /\ Len(last.calls) = 1
                /\ \E i \in 1..MaxInst : inst[i].st = "failed"
            /\ created # NULL =>
                /\ last.ret = "Ok"
                /\ \E i \in 1..MaxInst : inst[i].st = "live" /\ inst[i].handle = created
    /\ \A i \in 1..MaxInst :
        /\ inst[i].st \in {"live", "dropped"} => inst[i].handle # NULL
        /\ inst[i].st \in {"none", "failed"} => inst[i].handle = NULL
    /\ \A j \in DOMAIN last.calls :
        last.calls[j].fn \notin LedgerFns \cup {"evm_create"} => last.calls[j].h # NULL

\* evm_create returned null to try_new: an error, and no instance.
C14_Witness ==
    /\ last.op = "try_new"
    /\ last.calls[1].h = NULL
    /\ last.ret = "Ffi"
    /\ \E i \in 1..MaxInst : inst[i].st = "failed" /\ inst[i].handle = NULL

\* C15: a build step hands the builder's non-null handle and both handler
\* lists to the config; the drop of the consumed builder that ends the step
\* makes no call: no evm_config_destroy, no handler freed.
C15_BuildMovesOwnership ==
    [][(cfg.b.st = "live" /\ cfg'.op = "build") =>
            /\ cfg.b.handle # NULL
            /\ cfg'.c.st = "live"
            /\ cfg'.c.handle = cfg.b.handle
            /\ cfg'.c.opcode_handlers = cfg.b.opcode_handlers
            /\ cfg'.c.precompile_handlers = cfg.b.precompile_handlers
            /\ cfg'.b.st = "gone"
            /\ cfg'.calls = << >>
            /\ cfg'.hst = "live"
            /\ cfg'.destroys = cfg.destroys
            /\ cfg'.box = cfg.box]_vars

\* A builder with one opcode and one precompile handler was built.
C15_Witness ==
    /\ cfg.op = "build"
    /\ cfg.c.handle # NULL
    /\ Len(cfg.c.opcode_handlers) = 1
    /\ Len(cfg.c.precompile_handlers) = 1
    /\ cfg.calls = << >>
    /\ \A id \in 1..MaxOverrides : cfg.box[id] = "alloc"

\* C16: a handler the engine accepted is allocated for as long as the
\* configuration handle is live or has been handed to an engine: it is freed
\* only after evm_config_destroy, never after into_raw, and never twice.
C16_HandlersOutliveHandle ==
    /\ ~cfg.early
    /\ \A id \in cfg.reg :
        /\ cfg.box[id] \in {"alloc", "freed"}
        /\ cfg.box[id] = "freed" => cfg.hst = "destroyed" /\ cfg.raw = NULL
        /\ (cfg.hst = "live" \/ cfg.raw # NULL) => cfg.box[id] = "alloc"

\* The drop of a built config destroyed the handle and then freed its two
\* accepted handlers.
C16_Witness ==
    /\ cfg.op = "drop_config"
    /\ Cardinality(cfg.reg) = 2
    /\ cfg.hst = "destroyed"
    /\ \A id \in cfg.reg : cfg.box[id] = "freed"

\* C19: when the engine rejects an override registration, the box allocated
\* for that call is freed exactly once, is not among the handlers the engine
\* accepted nor freed a second time with the retained ones, the call signals
\* the failure, and every handler registered earlier is freed only after
\* evm_config_destroy.
Rejected ==
    /\ cfg.op \in { "override_opcode", "override_precompile" }
    /\ Len(cfg.calls) >= 2
    /\ cfg.calls[2].fn \in Registrations
    /\ ~cfg.calls[2].ok

C19_RejectedHandlerFreedOnce ==
    Rejected =>
        LET id == cfg.calls[1].id
            frees == { j \in DOMAIN cfg.calls : cfg.calls[j].fn = "box_free" }
        IN  /\ cfg.ret = "panic"
            /\ Cardinality({ j \in frees : cfg.calls[j].id = id }) = 1
            /\ cfg.box[id] = "freed"
            /\ id \notin cfg.reg
            /\ cfg.b.opcode_handlers = << >> /\ cfg.b.precompile_handlers = << >>
            /\ ~cfg.early
            /\ \A j \in frees :
                    cfg.calls[j].id # id =>
                        \E i \in 1..(j - 1) : cfg.calls[i].fn = "evm_config_destroy"

\* A registration was rejected after another handler had been accepted, which
\* was freed in the unwinding.
C19_Witness ==
    /\ Rejected
    /\ cfg.reg # {}
    /\ \A id \in cfg.reg : cfg.box[id] = "freed"
    /\ cfg.hst = "destroyed"

\* C20: a trampoline entered with a null context token answers false, invokes
\* no handler and writes none of its out-parameters.
NullToken == cfg.tramp.fn \in { "opcode_trampoline", "precompile_trampoline" } /\ cfg.tramp.ctx = NULL

C20_NullTokenNotHandled ==
    NullToken =>
        /\ cfg.tramp.ret = FALSE
        /\ cfg.tramp.calls = << >>
        /\ cfg.calls = << >>
        /\ cfg.tramp.out.written = {}
        /\ ~cfg.tramp.out.forgotten

\* The precompile trampoline was entered with a null token while a precompile
\* handler was registered on the live configuration, and no handler has run.
C20_Witness ==
    /\ NullToken
    /\ cfg.tramp.fn = "precompile_trampoline"
    /\ \E id \in cfg.reg : cfg.regfn[id] = "evm_config_add_precompile_override"
    /\ cfg.hst = "live"
    /\ cfg.invoked = {}

\* C17 as stated: a handler is invoked only between its accepted registration
\* and its release, and it is released when the handle that may invoke it is
\* destroyed: the configuration handle in the adapter's hands, or the engine
\* handle the configuration was handed to through into_raw.
C17_FreedAtEveryDestruction ==
    /\ ~cfg.unreg
    /\ ~cfg.stale
    /\ \A id \in cfg.reg :
        cfg.box[id] = "freed" <=> (cfg.destroys = 1 \/ cfg.est = "destroyed")

\* C17, amended: a handler is invoked only between its accepted registration
\* and its release; it is released when the adapter itself destroys the
\* configuration handle (drop of the builder or of the built configuration),
\* and once into_raw handed the handle away the adapter never releases it,
\* also not when the engine that received the handle is destroyed.
C17_OverrideLifecycle ==
    /\ ~cfg.unreg
    /\ ~cfg.stale
    /\ \A id \in cfg.reg :
        /\ cfg.box[id] = "freed" <=> cfg.destroys = 1
        /\ cfg.raw # NULL => cfg.box[id] = "alloc"

\* A handler was registered and invoked, its configuration went to an engine
\* through into_raw, the engine instance was dropped (which released the
\* configuration), and the handler is still allocated.
C17_Witness ==
    /\ cfg.op = "drop_evm"
    /\ cfg.hst = "destroyed"
    /\ cfg.efrees = 1
    /\ \E id \in cfg.reg \cap cfg.invoked : cfg.box[id] = "alloc"

\* C18 as stated: after with_config the adapter never calls
\* evm_config_destroy on the configuration, and once the instance is over, or
\* could not be created, the engine has freed the configuration exactly once.
C18_FreedOnceAlsoOnFailure ==
    /\ ~cfg.late
    /\ cfg.evm.st # "none" => cfg.destroys = 0
    /\ cfg.evm.st = "live" => cfg.efrees = 0 /\ cfg.hst = "live"
    /\ cfg.evm.st \in { "gone", "failed" } => cfg.efrees = 1 /\ cfg.hst = "destroyed"

\* C18, amended: after with_config the adapter never calls evm_config_destroy
\* on the configuration; when the engine was created, the configuration lives
\* as long as the instance and is freed exactly once, by the engine, at the
\* evm_destroy of the instance's drop; when creation failed the adapter has
\* no engine handle, calls neither evm_destroy nor anything on the
\* configuration, and the configuration is freed at most once, by the engine.
C18_ConfigOwnedByEngine ==
    /\ ~cfg.late
    /\ ~cfg.emisuse
    /\ cfg.evm.st # "none" => cfg.destroys = 0 /\ ~cfg.misuse /\ cfg.raw # NULL
    /\ cfg.evm.st = "live" => cfg.efrees = 0 /\ cfg.hst = "live" /\ cfg.est = "live"
    /\ cfg.evm.st = "gone" => cfg.efrees = 1 /\ cfg.hst = "destroyed" /\ cfg.est = "destroyed"
    /\ cfg.evm.st = "failed" => cfg.efrees <= 1 /\ cfg.est = "unborn" /\ cfg.owner = NULL

\* An engine was created from a configuration with a registered override and
\* its instance dropped: one release by the engine, none by the adapter.
C18_Witness ==
    /\ cfg.evm.st = "gone"
    /\ cfg.owner # NULL
    /\ cfg.reg # {}
    /\ cfg.efrees = 1
    /\ cfg.destroys = 0

\* C21: the precompile trampoline, entered with a handler's token, answers
\* false without invoking the handler when the address pointer is null or the
\* input pointer is null with a non-zero length; with a null input pointer
\* and zero length the handler is invoked with an empty input; otherwise the
\* handler sees the first 20 bytes behind the address pointer and the first
\* input_len bytes behind the input pointer.
PrecompileEntered == cfg.tramp.fn = "precompile_trampoline" /\ cfg.tramp.ctx # NULL
HandlerInvoked ==
    \E j \in DOMAIN cfg.tramp.calls :
        cfg.tramp.calls[j].fn = "invoke" /\ cfg.tramp.calls[j].id = cfg.tramp.ctx

C21_PointersValidated ==
    PrecompileEntered =>
        LET a == cfg.targs
            t == cfg.tramp
        IN  /\ (a.address.null \/ (a.input.null /\ a.input_len # 0)) =>
                    ~t.ret /\ ~HandlerInvoked /\ t.calls = << >> /\ t.view = << >>
            /\ (~a.address.null /\ ~(a.input.null /\ a.input_len # 0)) =>
                    /\ HandlerInvoked
                    /\ Len(t.view[1]) = AddrLen
                    /\ \A j \in 1..AddrLen : t.view[1][j] = a.address.mem[j]
                    /\ Len(t.view[2]) = a.input_len
                    /\ ~a.input.null => \A j \in 1..a.input_len : t.view[2][j] = a.input.mem[j]

\* The handler was invoked with one input byte out of the two behind the
\* input pointer, and with 20 of the 21 bytes behind the address pointer.
C21_Witness ==
    /\ PrecompileEntered
    /\ HandlerInvoked
    /\ Len(cfg.targs.address.mem) > AddrLen
    /\ cfg.targs.input_len = 1
    /\ cfg.tramp.view[2] = << 9 >>

\* C22: when the handler returns success, the trampoline writes all three
\* out-parameters (the pointer to the handler's output bytes, their exact
\* number, the handler's gas used), answers true and abandons the buffer
\* without freeing it; no later operation of the adapter frees it.
C22_OutputHandedOver ==
    /\ ~cfg.outfreed
    /\ (PrecompileEntered /\ HandlerInvoked /\ cfg.targs.result.ok) =>
            LET out == cfg.tramp.out
                result == cfg.targs.result
            IN  /\ cfg.tramp.ret
                /\ out.written = { "output_ptr", "output_len", "gas_used" }
                /\ out.output.data = result.output.data
                /\ out.output_len = Len(result.output.data)
                /\ out.gas_used = result.gas_used
                /\ out.forgotten
                /\ \E j \in DOMAIN cfg.tramp.calls : cfg.tramp.calls[j].fn = "vec_forget"
                /\ \A j \in DOMAIN cfg.tramp.calls : cfg.tramp.calls[j].fn # "vec_drop"

\* A handler returned two output bytes in an allocation of four; the length
\* written is two and the buffer was abandoned to the caller.
C22_Witness ==
    /\ PrecompileEntered
    /\ cfg.targs.result.ok
    /\ cfg.targs.result.output.cap > Len(cfg.targs.result.output.data)
    /\ cfg.tramp.out.output_len = 2
    /\ cfg.handed

\* C23: when the handler returns an error, whatever its kind, the trampoline
\* answers false, writes none of the out-parameters and abandons no buffer.
C23_ErrorWritesNothing ==
    (PrecompileEntered /\ HandlerInvoked /\ ~cfg.targs.result.ok) =>
        /\ ~cfg.tramp.ret
        /\ cfg.tramp.out.written = {}
        /\ ~cfg.tramp.out.forgotten
        /\ \A j \in DOMAIN cfg.tramp.calls : cfg.tramp.calls[j].fn = "invoke"

\* A handler was invoked and returned ExecutionFailed.
C23_Witness ==
    /\ PrecompileEntered
    /\ HandlerInvoked
    /\ cfg.targs.result.err = "ExecutionFailed"
    /\ ~cfg.tramp.ret

\* C24: encoding a 256-bit value and decoding it again gives the value back,
\* for zero, the maximum and every digit position, with the most significant
\* byte first (the value 1 is 31 zero bytes followed by one byte 1); encoding
\* an address and decoding it gives the address back; and on the numbers of
\* the model's range the wire bytes are the big-endian digits of the number.
One == [j \in 1..WordLen |-> IF j = 1 THEN 1 ELSE 0]

\* The digits of a number of the model's range, least significant first.
Digits(value) ==
    [j \in 1..WordLen |->
        IF j = 1 THEN value % 256
        ELSE IF j = 2 THEN (value \div 256) % 256
        ELSE IF j = 3 THEN (value \div 65536) % 256
        ELSE IF j = 4 THEN (value \div 16777216) % 256
        ELSE 0]

C24_RoundTrip ==
    last.op = "convert" =>
        /\ last.u256_back = last.u256
        /\ Len(last.u256_bytes) = WordLen
        /\ \A j \in 1..WordLen : last.u256_bytes[j] = last.u256[WordLen + 1 - j]
        /\ last.u256 = One =>
                last.u256_bytes = [j \in 1..WordLen |-> IF j = WordLen THEN 1 ELSE 0]
        /\ last.address_back = last.address
        /\ Len(last.address_bytes) = AddrLen
        /\ last.back = last.number
        /\ last.aback = last.number
        /\ last.bytes = U256_to_be_bytes(Digits(last.number))
        /\ Len(last.abytes) = AddrLen
        /\ \A j \in 1..AddrLen : last.abytes[j] = last.bytes[j + WordLen - AddrLen]

\* The maximum 2^256-1 went to the wire and back.
C24_Witness ==
    /\ last.op = "convert"
    /\ last.kind = "u256"
    /\ \A j \in 1..WordLen : last.u256[j] = 255
    /\ \A j \in 1..WordLen : last.u256_bytes[j] = 255
    /\ last.u256_back = last.u256

C26_GasClamped ==
    (last.op = "transact" /\ ExecuteOk) =>
        LET g == last.o.rep.gas
            res == last.out.result
        IN  /\ res.tag \in { "Success", "Revert" }
            /\ res.gas_used >= 0
            /\ g < 0 => res.gas_used = 0
            /\ g >= 0 => res.gas_used = g

\* A Revert whose engine reported the most negative gas of the inputs.
C26_Witness ==
    /\ last.op = "transact"
    /\ ExecuteOk
    /\ last.out.result.tag = "Revert"
    /\ last.o.rep.gas < -1
    /\ last.out.result.gas_used = 0

\* C27: the output of the outcome has the length evm_get_output_len returned
\* and holds the engine's output bytes; a length of 0 gives the empty output
\* without a call of evm_get_output, any other length one call of
\* evm_get_output with a buffer of that length.
C27_OutputExactLength ==
    (last.op = "transact" /\ ExecuteOk) =>
        LET lens == At({"evm_get_output_len"})
            gets == At({"evm_get_output"})
            res == last.out.result
        IN  /\ Cardinality(lens) = 1
            /\ \A j \in lens :
                /\ Len(res.output) = last.calls[j].v
                /\ last.calls[j].v = 0 => gets = {} /\ res.output = << >>
                /\ last.calls[j].v > 0 =>
                        /\ gets = { j + 1 }
                        /\ last.calls[j + 1].v = last.calls[j].v
                        /\ res.output = last.calls[j + 1].b
            /\ res.output = last.o.rep.output

\* An execution with an empty output and a log: evm_get_output was not
\* called, the next call after the length is the refund.
C27_Witness ==
    /\ last.op = "transact"
    /\ ExecuteOk
    /\ last.out.result.output = << >>
    /\ At({"evm_get_output"}) = {}
    /\ \E j \in At({"evm_get_output_len"}) : last.calls[j + 1].fn = "evm_get_gas_refund"
    /\ last.o.rep.logs # << >>

\* C28: no operation of the adapter changes the ledger's accounts or storage;
\* what an execution wrote to storage is in the state transact returns, and
\* the ledger still holds what it held before.
C28_LedgerUntouched ==
    [][/\ db' = db
       /\ (runs' = runs + 1 /\ last'.op = "transact" /\ last'.ret = "Ok") =>
            \A j \in OkChanges(last'.o.rep) :
                LET c == last'.o.rep.changes[j]
                IN  /\ c.address \in DOMAIN last'.out.state
                    /\ c.slot \in DOMAIN last'.out.state[c.address].storage
                    /\ db'.sto[<<c.address, c.slot>>] = db.sto[<<c.address, c.slot>>]]_vars

\* transact returned a storage change whose value differs from what the
\* ledger holds in that slot.
C28_Witness ==
    /\ last.op = "transact"
    /\ last.ret = "Ok"
    /\ \E a \in DOMAIN last.out.state :
        \E s \in DOMAIN last.out.state[a].storage :
            last.out.state[a].storage[s].present_value # db.sto[<<a, s>>]

\* The threads inside a call of the engine on handle h.
InEngine(h) ==
    { t \in Threads :
        /\ last.th[t].pc = "in_call"
        /\ last.th[t].r.calls[last.th[t].at + 1].fn \notin {"db.basic", "db.storage"}
        /\ last.th[t].r.calls[last.th[t].at + 1].h = h }

\* The threads with an operation in progress on instance i.
Operating(i) == { t \in Threads : last.th[t].pc # "idle" /\ last.th[t].i = i }

\* C29: no two engine calls on the same handle overlap, and while an operation
\* on an instance is in progress (begun and not yet returned, whatever calls
\* of it are complete) no other thread has an operation on that instance in
\* progress: neither another transact nor the drop that destroys the handle.
C29_NoOverlap ==
    /\ \A h \in Handle : Cardinality(InEngine(h)) <= 1
    /\ \A i \in 1..MaxInst : Cardinality(Operating(i)) <= 1
    /\ ~misuse

\* Thread 2 is inside evm_execute on the handle after thread 1 ran a transact
\* on the same instance to its end, and thread 1 is idle.
C29_Witness ==
    /\ runs = 1
    /\ \E t \in Threads :
        /\ InEngine(inst[1].handle) = {t}
        /\ last.th[t].r.calls[last.th[t].at + 1].fn = "evm_execute"
        /\ \E u \in Threads \ {t} : last.th[u].pc = "idle"

\* The hardfork names of the mapping, tag by tag.
Wire ==
    [s \in ListedSpecIds |->
        CASE s = "FRONTIER" -> "Frontier" [] s = "FRONTIER_THAWING" -> "Frontier"
          [] s = "HOMESTEAD" -> "Homestead" [] s = "DAO_FORK" -> "Homestead"
          [] s = "TANGERINE" -> "Tangerine" [] s = "SPURIOUS_DRAGON" -> "Spurious"
          [] s = "BYZANTIUM" -> "Byzantium"
          [] s = "CONSTANTINOPLE" -> "Constantinople" [] s = "PETERSBURG" -> "Constantinople"
          [] s = "ISTANBUL" -> "Istanbul" [] s = "MUIR_GLACIER" -> "Istanbul"
          [] s = "BERLIN" -> "Berlin"
          [] s = "LONDON" -> "London" [] s = "ARROW_GLACIER" -> "London"
          [] s = "GRAY_GLACIER" -> "London"
          [] s = "MERGE" -> "Merge" [] s = "SHANGHAI" -> "Shanghai"
          [] s = "CANCUN" -> "Cancun" [] s = "PRAGUE" -> "Prague" [] s = "OSAKA" -> "Osaka"]

\* C30: whichever constructor runs and whatever the context's SpecId, the
\* name passed to evm_create is the fixed name of a listed tag, Cancun for a
\* tag that is not listed, and the name the other constructor would pass.
C30_HardforkMapping ==
    last.op \in {"new", "try_new"} =>
        LET name == last.calls[1].name
        IN  /\ last.spec \in ListedSpecIds => name = Wire[last.spec]
            /\ last.spec \notin ListedSpecIds => name = "Cancun"
            /\ name = new_hardfork_name(last.spec)
            /\ name = try_new_hardfork_name(last.spec)

\* try_new built an instance from a context whose tag is newer than OSAKA.
C30_Witness ==
    /\ last.op = "try_new"
    /\ last.ret = "Ok"
    /\ last.spec \notin ListedSpecIds
    /\ last.calls[1].name = "Cancun"

\* The code the ledger holds for an address: empty for an absent account and
\* for an account without code.
LedgerCode(address) ==
    IF db.acc[address].some /\ db.acc[address].code.some THEN db.acc[address].code.bytes
    ELSE << >>

\* C31: in every transact, the bytecode pushed is the callee's ledger code for
\* a call and the transaction's data for a create, and the execution context
\* names the callee (call) or the zero address (create) as target and carries
\* the transaction's data as calldata.
C31_TargetAndCode ==
    last.op = "transact" =>
        /\ \A j \in At({"evm_set_bytecode"}) :
              last.calls[j].b = IF last.tx.kind = "Call" THEN LedgerCode(last.tx.to)
                                ELSE last.tx.data
        /\ \A j \in At({"evm_set_execution_context"}) :
              /\ last.calls[j].a = IF last.tx.kind = "Call" THEN last.tx.to ELSE ZERO
              /\ last.calls[j].b = last.tx.data
        /\ last.ret = "Ok" => At({"evm_set_bytecode"}) # {} /\ At({"evm_set_execution_context"}) # {}

\* A call to a contract ran to the end with calldata that differs from the
\* contract's code.
C31_Witness ==
    /\ last.op = "transact"
    /\ last.ret = "Ok"
    /\ last.tx.kind = "Call"
    /\ LedgerCode(last.tx.to) # << >>
    /\ last.tx.data # << >>
    /\ \E j \in At({"evm_set_bytecode"}) : last.calls[j].b = LedgerCode(last.tx.to)

\* The target of the last transaction.
TargetOf(tx) == IF tx.kind = "Call" THEN tx.to ELSE ZERO

\* C32: the storage pushed by a transact is the window of the target: the
\* k-th evm_set_storage of the run carries the target, slot k - 1 and the value
\* the ledger holds for that slot, the ledger is asked for storage in the same
\* order and of the target only, and a run that reaches evm_execute has pushed
\* exactly the slots 0..9 before it.
C32_WindowOfTarget ==
    last.op = "transact" =>
        /\ \A j \in At({"evm_set_storage"}) :
              LET k == CountTo({"evm_set_storage"}, j)
              IN  /\ last.calls[j].a = TargetOf(last.tx)
                  /\ last.calls[j].s = k - 1
                  /\ last.calls[j].v = db.sto[<<TargetOf(last.tx), k - 1>>]
        /\ \A j \in At({"db.storage"}) :
              /\ last.calls[j].a = TargetOf(last.tx)
              /\ last.calls[j].s = CountTo({"db.storage"}, j) - 1
        /\ \A e \in At({"evm_execute"}) :
              /\ { last.calls[j].s : j \in At({"evm_set_storage"}) } = 0..9
              /\ Cardinality(At({"evm_set_storage"})) = 10
              /\ \A j \in At({"evm_set_storage"}) : j < e /\ last.calls[j].ok

\* A run reached evm_execute with a caller other than the target, and the
\* ledger holds a value in a slot of the target past the window and in a slot
\* of the caller.
C32_Witness ==
    /\ last.op = "transact"
    /\ At({"evm_execute"}) # {}
    /\ last.tx.caller # TargetOf(last.tx)
    /\ db.sto[<<TargetOf(last.tx), 10>>] # 0
    /\ db.sto[<<last.tx.caller, 0>>] # 0
    /\ Cardinality(At({"evm_set_storage"})) = 10

\* The Rust values that hold the configuration handle.
Holders ==
    { v \in {"builder", "config"} :
        \/ v = "builder" /\ cfg.b.st = "live" /\ cfg.b.handle # NULL
        \/ v = "config" /\ cfg.c.st = "live" /\ cfg.c.handle # NULL }
Destroying == \E j \in DOMAIN cfg.calls : cfg.calls[j].fn = "evm_config_destroy"

\* C33: as long as into_raw has not handed the configuration handle on, a live
\* handle is held by exactly one value (the builder or the built config), a
\* handle nobody holds has been destroyed, it is destroyed once, and the
\* operation that destroys it is the builder's drop (its own, or the unwinding
\* of a failed registration) when build was never called and the drop of the
\* EvmConfig otherwise.
C33_UntransferredDestroyedOnce ==
    cfg.raw = NULL =>
        /\ cfg.hst = "live" => Cardinality(Holders) = 1
        /\ cfg.hst = "destroyed" => cfg.destroys = 1 /\ Holders = {}
        /\ Destroying =>
              IF cfg.c.st = "none"
              THEN cfg.op \in {"drop_builder", "override_opcode", "override_precompile"}
              ELSE cfg.op = "drop_config" /\ cfg.b.st = "gone"

\* The second registration on a builder failed: the unwinding dropped the
\* builder, which destroyed the handle, and no config was ever built.
C33_Witness ==
    /\ cfg.op = "override_precompile"
    /\ cfg.ret = "panic"
    /\ cfg.c.st = "none"
    /\ cfg.raw = NULL
    /\ cfg.destroys = 1
    /\ Destroying
    /\ \E id \in 1..MaxOverrides : id \in cfg.reg

\* The bytecode a transaction runs: the callee's ledger code, or its data.
CodeOf(tx) == IF tx.kind = "Call" THEN LedgerCode(tx.to) ELSE tx.data

\* C34: every evm_execute is preceded, within its own run, by the ledger reads
\* of the run's caller and target and of the ten window slots, by a successful
\* evm_set_bytecode with the run's code, a successful
\* evm_set_execution_context with the run's caller, target and data, and by
\* evm_set_blockchain_context, in this order; so the engine executes on the
\* bytecode and context of this run whatever earlier runs on the handle left.
C34_FreshSetupBeforeExecute ==
    last.op = "transact" =>
        \A e \in At({"evm_execute"}) :
            /\ \E b \in At({"evm_set_bytecode"}), c \in At({"evm_set_execution_context"}),
                  k \in At({"evm_set_blockchain_context"}) :
                  /\ b < c /\ c < k /\ k < e
                  /\ last.calls[b].ok /\ last.calls[b].b = CodeOf(last.tx)
                  /\ last.calls[c].ok
                  /\ last.calls[c].a = TargetOf(last.tx)
                  /\ last.calls[c].s = last.tx.caller
                  /\ last.calls[c].b = last.tx.data
                  /\ \E p, q \in At({"db.basic"}) :
                        /\ p < q /\ q < b
                        /\ last.calls[p].a = last.tx.caller
                        /\ last.calls[q].a = TargetOf(last.tx)
                  /\ \A s \in 0..9 : \E j \in At({"evm_set_storage"}) :
                        j < b /\ last.calls[j].s = s /\ last.calls[j].a = TargetOf(last.tx)
            /\ eng[last.h].bytecode = SomeCode(CodeOf(last.tx))
            /\ eng[last.h].ectx = [some |-> TRUE, caller |-> last.tx.caller,
                                   address |-> TargetOf(last.tx), data |-> last.tx.data]
            /\ eng[last.h].bctx

\* The second run on a handle executed, and the engine still holds the account
\* of an address that is neither caller nor target of this run: the earlier
\* run had other parties.
C34_Witness ==
    /\ last.op = "transact"
    /\ runs = 2
    /\ At({"evm_execute"}) # {}
    /\ \E a \in Addr :
          /\ a \notin { last.tx.caller, TargetOf(last.tx) }
          /\ eng[last.h].nonce[a] # 0

\* C35: the gas passed to evm_set_execution_context is never negative and its
\* magnitude is the transaction's gas limit, for every limit of the u64 range.
C35_GasLimitPassedUnchanged ==
    last.op = "transact" =>
        \A j \in At({"evm_set_execution_context"}) :
            /\ ~last.calls[j].gas.negative
            /\ last.calls[j].gas.magnitude = last.tx.gas_limit

\* C36: every successfully enumerated log appears in the outcome with exactly
\* the topics the engine reported, in order, and with data of exactly the
\* reported length, whatever the number of topics (0 to 4) and the data length.
C36_LogsExact ==
    (last.op = "transact" /\ last.ret = "Ok" /\ last.out.result.tag = "Success") =>
        LET sel == SelectSeq(last.o.rep.logs, LAMBDA e : e.ok)
            logs == last.out.result.logs
        IN  /\ Len(logs) = Len(sel)
            /\ \A j \in 1..Len(sel) :
                  /\ Len(logs[j].topics) = Len(sel[j].topics)
                  /\ logs[j].topics = sel[j].topics
                  /\ Len(logs[j].data) = Len(sel[j].data)

\* The successfully enumerated change entries of a report for (address, slot).
ChangesAt(rep, address, slot) ==
    { j \in OkChanges(rep) : rep.changes[j].address = address /\ rep.changes[j].slot = slot }
Highest(S) == CHOOSE j \in S : \A i \in S : i <= j

\* C37: in the state of a completed run, the slot (address, slot) has an entry
\* exactly when some successfully enumerated change names that address and
\* slot, and its present value is the value of the highest-indexed such
\* change: changes of other addresses or slots never reach it.
C37_LastChangeWins ==
    (last.op = "transact" /\ last.ret = "Ok") =>
        LET rep == last.o.rep
            state == last.out.state
        IN  \A a \in Addr, s \in Slot :
                IF ChangesAt(rep, a, s) = {}
                THEN a \in DOMAIN state => s \notin DOMAIN state[a].storage
                ELSE /\ a \in DOMAIN state
                     /\ s \in DOMAIN state[a].storage
                     /\ state[a].storage[s].present_value
                            = rep.changes[Highest(ChangesAt(rep, a, s))].value

\* The engine reported two values for one slot, and the state has the later.
C37_Witness ==
    /\ last.op = "transact"
    /\ last.ret = "Ok"
    /\ \E a \in Addr, s \in Slot :
          /\ Cardinality(ChangesAt(last.o.rep, a, s)) = 2
          /\ Cardinality({ last.o.rep.changes[j].value : j \in ChangesAt(last.o.rep, a, s) }) = 2
          /\ last.out.state[a].storage[s].present_value = last.o.rep.changes[2].value

\* C38: every account of the state a transact returns has zero balance, zero
\* nonce and no code, and every slot of it has original value 0 and is not
\* cold, whatever the ledger holds for the account and the slot and whatever
\* was pushed into the engine before the execution.
C38_DefaultInfoAndOriginal ==
    (last.op = "transact" /\ last.ret = "Ok") =>
        \A a \in DOMAIN last.out.state :
            /\ last.out.state[a].info.balance = 0
            /\ last.out.state[a].info.nonce = 0
            /\ ~last.out.state[a].info.code.some
            /\ \A s \in DOMAIN last.out.state[a].storage :
                  /\ last.out.state[a].storage[s].original_value = 0
                  /\ ~last.out.state[a].storage[s].is_cold

\* The state holds a slot of a contract whose nonce, code and slot value in
\* the ledger are not zero and were pushed into the engine before the run.
C38_Witness ==
    /\ last.op = "transact"
    /\ last.ret = "Ok"
    /\ \E a \in DOMAIN last.out.state : \E s \in DOMAIN last.out.state[a].storage :
          /\ db.acc[a].some /\ db.acc[a].nonce # 0 /\ db.acc[a].code.some
          /\ db.sto[<<a, s>>] # 0
          /\ \E j \in At({"evm_set_storage"}) :
                last.calls[j].a = a /\ last.calls[j].s = s /\ last.calls[j].v = db.sto[<<a, s>>]
          /\ \E j \in At({"evm_set_nonce"}) : last.calls[j].a = a /\ last.calls[j].v # 0

\* C39: each of the four bridge functions, called with a null handle, returns
\* its null-handle error and its trace is empty: no ledger lookup and no
\* engine call was made.
C39_NullHandleRejected ==
    (last.op \in Operations \cup {"read_storage_from_ffi"} /\ last.op # "transact" /\ last.h = NULL) =>
        /\ last.calls = << >>
        /\ IF last.op = "read_storage_from_ffi"
           THEN last.ret = "Err" /\ last.err = "null handle in read_storage_from_ffi"
           ELSE last.ret = "Ffi" /\ last.err = "null handle"
        /\ ~misuse

\* read_storage_from_ffi was called with a null handle while an instance with
\* a live handle exists, on a slot the ledger holds a value for; and so can
\* each of the three sync functions be.
C39_Witness ==
    /\ last.op = "read_storage_from_ffi"
    /\ last.h = NULL
    /\ last.ret = "Err"
    /\ \E i \in 1..MaxInst : inst[i].st = "live"
    /\ db.sto[<<last.tx.to, last.slots[1]>>] # 0

====
